---- MODULE Spec2Model ----
(***************************************************************************)
(* Presence Graph inference engine (GraphEngine) as a state machine.       *)
(*                                                                         *)
(* Representation:                                                         *)
(*   - timestamps and time_func readings are whole seconds; time_func is   *)
(*     a clock the environment advances, and an event carries a timestamp  *)
(*     at or shortly before the clock's reading;                           *)
(*   - a score is a fixed-point integer, ONE standing for 1.0; the models  *)
(*     installed use timeouts that divide ONE, so 1 - elapsed/timeout is   *)
(*     exact for whole-second elapsed times;                               *)
(*   - event durations are in tenths of a second;                          *)
(*   - float("-inf") is the sentinel NegInf, handled explicitly wherever   *)
(*     the code compares or subtracts it;                                  *)
(*   - an optional argument (duration, score) is a sequence of length 0    *)
(*     (None) or 1.                                                        *)
(***************************************************************************)
EXTENDS Integers, Sequences, FiniteSets, TLC

\* ------------------------------------------------------------------------
\* Bounds of the exploration
\* ------------------------------------------------------------------------
\* the clock stops advancing at MaxTime
MaxTime == 4

\* an event is delivered with a timestamp at most MaxLag seconds behind the clock
MaxLag == 1

\* ------------------------------------------------------------------------
\* const.py
\* ------------------------------------------------------------------------
ATTR_REASON_SENSOR == "sensor"

ATTR_REASON_LINK == "link_event"

ATTR_REASON_DECAY == "decay"

ATTR_REASON_FORCED == "manual_override"

DEFAULT_TIMEOUT == 120

DEFAULT_TRAVERSAL_LATENCY == 8

\* fixed-point unit: the score 1.0
ONE == 120

\* 0.2
DEFAULT_DECAY_THRESHOLD == ONE \div 5

\* 0.6, the confidence a link traversal boosts its target to
BOOST_SCORE == (3 * ONE) \div 5

\* 0.5 s, in tenths of a second
MIN_EVENT_DURATION == 5

\* 2.0 s
LINK_EVENT_DEBOUNCE == 2

\* float("-inf")
NegInf == -1

\* Python None where a string is expected
None == "<None>"

Max(a, b) == IF a >= b THEN a ELSE b

Min(a, b) == IF a <= b THEN a ELSE b

\* ------------------------------------------------------------------------
\* Event values: bool, number or string (GraphEvent.new_state is Any)
\* ------------------------------------------------------------------------
Bool(b) == [kind |-> "bool", b |-> b, n |-> 0, s |-> ""]

Num(n) == [kind |-> "num", b |-> FALSE, n |-> n, s |-> ""]

Str(s) == [kind |-> "str", b |-> FALSE, n |-> 0, s |-> s]

NoneValue == [kind |-> "none", b |-> FALSE, n |-> 0, s |-> ""]

\* str.lower() on the strings the model feeds in
lower(s) ==
    CASE s = "ON" -> "on"
      [] s = "Open" -> "open"
      [] s = "Locked" -> "locked"
      [] s = "UNLOCKED" -> "unlocked"
      [] s = "Home" -> "home"
      [] s = "TRUE" -> "true"
      [] s = "OFF" -> "off"
      [] OTHER -> s

is_on_state(value) ==
    IF value.kind = "bool" THEN value.b
    ELSE IF value.kind = "num" THEN value.n > 0
    ELSE IF value.kind = "str"
         THEN lower(value.s) \in {"on", "open", "true", "home", "locked", "unlocked"}
    ELSE FALSE

state_is_locked(value) ==
    IF value.kind = "bool" THEN value.b
    ELSE IF value.kind = "str" THEN lower(value.s) \in {"on", "locked", "true"}
    ELSE FALSE

\* ------------------------------------------------------------------------
\* utils.sorted_unique: unique values in order of first appearance
\* ------------------------------------------------------------------------
RECURSIVE sorted_unique_from(_, _)
sorted_unique_from(items, result) ==
    IF items = <<>> THEN result
    ELSE LET item == Head(items)
             seen == {result[i] : i \in 1..Len(result)}
         IN sorted_unique_from(Tail(items),
                               IF item \in seen THEN result ELSE Append(result, item))

sorted_unique(items) == sorted_unique_from(items, <<>>)

SeqToSet(q) == {q[i] : i \in 1..Len(q)}

\* ------------------------------------------------------------------------
\* model.py
\* ------------------------------------------------------------------------
Space(id, include, motion, presence, timeout) ==
    [id |-> id, include_in_total |-> include, motion_entities |-> motion,
     presence_entities |-> presence, timeout_s |-> timeout]

Link(id, from, to, motion, contact, lock, latency) ==
    [id |-> id, from_space |-> from, to_space |-> to, motion_entities |-> motion,
     contact_entities |-> contact, lock_entities |-> lock,
     traversal_latency_s |-> latency]

PresenceState(occ, sc, total, last, counts) ==
    [occupied |-> occ, scores |-> sc, total_estimated |-> total,
     last_event_ts |-> last, space_counts |-> counts]

GraphUpdate(changed, reason, source, space, link) ==
    [changed |-> changed, reason |-> reason, source_entity_id |-> source,
     space |-> space, link |-> link]

\* ------------------------------------------------------------------------
\* GraphEngine attributes, the injected clock, the options of the config
\* entry, three history variables, and the configuration flow
\* ------------------------------------------------------------------------
VARIABLES
    spaces,           \* self._spaces: space id -> Space
    links,            \* self._links: link id -> Link
    entity_index,     \* self._entity_index: entity id -> (kind, target id)
    adjacency,        \* self._adjacency: space id -> set of space ids
    state,            \* self._state: PresenceState
    locked_links,     \* self._locked_links
    last_link_event,  \* self._last_link_event: link id -> timestamp (partial)
    last_reason,      \* self._last_reason
    clock,            \* the reading self._time_func() returns
    options,          \* config_entry.options: {} or {"spaces": stored items}
    decayed_at,       \* history, kept by SpecDecay alone: for a space whose score
                      \* comes from a sensor activation and decay passes only,
                      \* the latest time a decay pass ran for (NegInf otherwise)
    reason_log,       \* history, kept by SpecDecay alone: the kind of the latest
                      \* process_event since the reset that changed a space
    lock_log,         \* history, kept by SpecLocks alone: link id -> the value
                      \* of the latest lock event for the link since the reset
                      \* that passed the duration gate (partial)
    flow              \* kept by SpecFlow alone: the PresenceGraphConfigFlow
                      \* object and the result of its latest step

history == <<decayed_at, reason_log, lock_log>>

vars == <<spaces, links, entity_index, adjacency, state, locked_links,
          last_link_event, last_reason, clock, options, decayed_at, reason_log,
          lock_log, flow>>

\* the flow where no configuration flow is in progress
NoFlow == [step_id |-> "none"]

Put(f, k, v) ==
    IF k \in DOMAIN f THEN [f EXCEPT ![k] = v]
    ELSE [x \in (DOMAIN f) \cup {k} |-> IF x = k THEN v ELSE f[x]]

EmptyMap == [x \in {} |-> 0]

\* ConfigEntry.__post_init__: options = {}
NoOptions == EmptyMap

\* no lock event seen since the reset
NoLockLog == EmptyMap

\* ------------------------------------------------------------------------
\* set_model
\* ------------------------------------------------------------------------
\* utils.ensure_unique_ids: TRUE when it returns, FALSE when it raises
RECURSIVE ensure_unique_ids_from(_, _)
ensure_unique_ids_from(items, seen) ==
    IF items = <<>> THEN TRUE
    ELSE IF Head(items) \in seen THEN FALSE
    ELSE ensure_unique_ids_from(Tail(items), seen \cup {Head(items)})

ensure_unique_ids(items) == ensure_unique_ids_from(items, {})

\* {item.id: item for item in items}: the keys in order of first insertion
dict_keys(items) == sorted_unique([i \in 1..Len(items) |-> items[i].id])

\* {item.id: item for item in items}: a later item replaces an earlier one
dict_by_id(items) ==
    [id \in {items[i].id : i \in 1..Len(items)} |->
        items[CHOOSE i \in 1..Len(items) :
                /\ items[i].id = id
                /\ \A j \in 1..Len(items) : items[j].id = id => j <= i]]

RECURSIVE index_entities(_, _, _, _)
index_entities(index, entities, kind, target) ==
    IF entities = <<>> THEN index
    ELSE index_entities(Put(index, Head(entities), [kind |-> kind, target |-> target]),
                        Tail(entities), kind, target)

RECURSIVE index_spaces(_, _, _)
index_spaces(index, ids, space_map) ==
    IF ids = <<>> THEN index
    ELSE LET space == space_map[Head(ids)]
         IN index_spaces(
                index_entities(index,
                               sorted_unique(space.motion_entities \o space.presence_entities),
                               "space", space.id),
                Tail(ids), space_map)

\* the loop over link_map.values(): acc = [index, adjacency]
RECURSIVE index_links(_, _, _)
index_links(acc, ids, link_map) ==
    IF ids = <<>> THEN acc
    ELSE LET link == link_map[Head(ids)]
             adj == acc.adjacency
         IN IF link.from_space \notin DOMAIN adj \/ link.to_space \notin DOMAIN adj
            THEN index_links(acc, Tail(ids), link_map)
            ELSE LET adj1 == [adj EXCEPT ![link.from_space] = @ \cup {link.to_space}]
                     adj2 == [adj1 EXCEPT ![link.to_space] = @ \cup {link.from_space}]
                     i1 == index_entities(acc.index, sorted_unique(link.motion_entities),
                                          "link_motion", link.id)
                     i2 == index_entities(i1, sorted_unique(link.contact_entities),
                                          "link_contact", link.id)
                     i3 == index_entities(i2, sorted_unique(link.lock_entities),
                                          "link_lock", link.id)
                 IN index_links([index |-> i3, adjacency |-> adj2], Tail(ids), link_map)

\* mutant: a reset that leaves the state without any key
reset_state_empty(space_ids) ==
    PresenceState(EmptyMap, EmptyMap, 0, EmptyMap, EmptyMap)

\* a reset that stamps the spaces at time 0 instead of "never"
reset_state_stamped(space_ids) ==
    PresenceState([s \in space_ids |-> FALSE],
                  [s \in space_ids |-> 0],
                  0,
                  [s \in space_ids |-> 0],
                  [s \in space_ids |-> 0])

\* reset_state: the PresenceState it installs
reset_state(space_ids) ==
    PresenceState([s \in space_ids |-> FALSE],
                  [s \in space_ids |-> 0],
                  0,
                  [s \in space_ids |-> NegInf],
                  [s \in space_ids |-> 0])

\* set_model: the engine attributes it leaves (raised = the call raised)
set_model(spaces_in, links_in) ==
    LET space_map == dict_by_id(spaces_in)
        link_map == dict_by_id(links_in)
        raised == \/ ~ensure_unique_ids(dict_keys(spaces_in))
                  \/ ~ensure_unique_ids(dict_keys(links_in))
        idx0 == index_spaces(EmptyMap, dict_keys(spaces_in), space_map)
        acc == index_links([index |-> idx0,
                            adjacency |-> [s \in DOMAIN space_map |-> {}]],
                           dict_keys(links_in), link_map)
    IN [raised |-> raised,
        spaces |-> space_map,
        links |-> link_map,
        entity_index |-> acc.index,
        adjacency |-> acc.adjacency,
        state |-> reset_state(DOMAIN space_map),
        locked_links |-> {},
        last_link_event |-> EmptyMap,
        last_reason |-> ATTR_REASON_DECAY]

\* ------------------------------------------------------------------------
\* _apply_decay
\* ------------------------------------------------------------------------
\* timeout = space.timeout_s or DEFAULT_TIMEOUT
timeout_of(space) == IF space.timeout_s = 0 THEN DEFAULT_TIMEOUT ELSE space.timeout_s

\* the target score of one space at time now
decay_target(space, last_ts, now) ==
    IF last_ts = NegInf THEN 0
    ELSE LET timeout == timeout_of(space)
             elapsed == Max(0, now - last_ts)
         IN IF elapsed >= timeout THEN 0
            ELSE Max(0, ONE - (elapsed * ONE) \div timeout)

\* mutant: the target replaces the score whenever it differs from it
decay_applies_always(new_score, score) == new_score # score

\* the comparison that decides whether the target replaces the score
decay_applies(new_score, score) == new_score < score

\* mutant: a score of exactly 0.2 counts as occupied
above_threshold_inclusive(score) == score >= DEFAULT_DECAY_THRESHOLD

\* score > self._decay_threshold
above_threshold(score) == score > DEFAULT_DECAY_THRESHOLD

\* mutant: each pass takes the elapsed share off the current score
apply_decay_compounding(st, now) ==
    LET elapsed(s) == IF st.last_event_ts[s] = NegInf THEN 0
                      ELSE Max(0, now - st.last_event_ts[s])
        new_score(s) ==
            Max(0, st.scores[s] - (elapsed(s) * ONE) \div timeout_of(spaces[s]))
    IN PresenceState(
        [s \in DOMAIN spaces |-> new_score(s) > DEFAULT_DECAY_THRESHOLD],
        [s \in DOMAIN spaces |-> new_score(s)],
        st.total_estimated, st.last_event_ts, st.space_counts)

\* mutant: no decay pass runs
apply_decay_never(st, now) == st

apply_decay(st, now) ==
    LET new_score(s) == decay_target(spaces[s], st.last_event_ts[s], now)
        lowered(s) == decay_applies(new_score(s), st.scores[s])
        occ(s) == IF lowered(s) THEN above_threshold(new_score(s))
                  ELSE st.occupied[s]
    IN PresenceState(
        [s \in DOMAIN spaces |-> occ(s)],
        [s \in DOMAIN spaces |-> IF lowered(s) THEN new_score(s) ELSE st.scores[s]],
        st.total_estimated,
        st.last_event_ts,
        [s \in DOMAIN spaces |->
            IF lowered(s) /\ ~occ(s) THEN 0 ELSE st.space_counts[s]])

\* ------------------------------------------------------------------------
\* _count_clusters, _recalculate_totals
\* ------------------------------------------------------------------------
RECURSIVE SetToSeq(_)
SetToSeq(S) ==
    IF S = {} THEN <<>>
    ELSE LET x == CHOOSE y \in S : TRUE IN <<x>> \o SetToSeq(S \ {x})

\* the order in which a set hands out its elements is not fixed by the
\* language: order lists every space id, and a set is iterated along it
RECURSIVE in_order(_, _)
in_order(order, S) ==
    IF order = <<>> THEN <<>>
    ELSE (IF Head(order) \in S THEN <<Head(order)>> ELSE <<>>)
            \o in_order(Tail(order), S)

\* mutant: the traversal continues into any space not yet visited
joins_unvisited(neighbour, visited, remaining) == neighbour \notin visited

\* not (neighbour in visited or neighbour not in remaining)
joins(neighbour, visited, remaining) ==
    ~(neighbour \in visited \/ neighbour \notin remaining)

\* the inner "while queue" loop: the visited and remaining sets it leaves
RECURSIVE bfs(_, _, _, _)
bfs(order, queue, visited, remaining) ==
    IF queue = <<>> THEN [visited |-> visited, remaining |-> remaining]
    ELSE LET node == Head(queue)
             neighbours == IF node \in DOMAIN adjacency THEN adjacency[node] ELSE {}
             fresh == {n \in neighbours : joins(n, visited, remaining)}
         IN bfs(order, Tail(queue) \o in_order(order, fresh),
                visited \cup fresh, remaining \ fresh)

\* the outer "while remaining" loop; remaining.pop() takes the first element
\* along pop_order
RECURSIVE count_clusters_from(_, _, _, _, _)
count_clusters_from(pop_order, order, remaining, visited, clusters) ==
    IF remaining = {} THEN clusters
    ELSE LET current == Head(in_order(pop_order, remaining))
             r == bfs(order, <<current>>, visited \cup {current}, remaining \ {current})
         IN count_clusters_from(pop_order, order, r.remaining, r.visited, clusters + 1)

\* _count_clusters with the iteration orders of its sets given
count_clusters_in(pop_order, order, included) ==
    IF included = {} THEN 0
    ELSE count_clusters_from(pop_order, order, included, {}, 0)

\* _count_clusters as one build iterates its sets
count_clusters(included) ==
    count_clusters_in(SetToSeq(included), SetToSeq(DOMAIN adjacency), included)

\* mutant: the total never drops
smooth_sticky(estimated, previous) ==
    IF estimated > previous + 1 THEN previous + 1
    ELSE IF estimated < previous THEN previous
    ELSE estimated

\* the smoothing clamp: the new total may exceed the previous one by at most 1
\* mutant: the estimate is taken as it is
smooth_unclamped(estimated, previous) == estimated

smooth(estimated, previous) ==
    IF estimated > previous + 1 THEN previous + 1 ELSE estimated

\* mutant: every occupied space is counted
counts_toward_total_always(sp, sid) == TRUE

\* self._spaces[sid].include_in_total
counts_toward_total(sp, sid) == sp[sid].include_in_total

\* mutant: only the spaces counted in the total get a space count of 1
recalculate_totals_included(sp, st) ==
    LET occupied_spaces == {sid \in DOMAIN st.occupied : st.occupied[sid]}
        included == {sid \in occupied_spaces : counts_toward_total(sp, sid)}
        space_counts == [sid \in DOMAIN sp |-> IF sid \in included THEN 1 ELSE 0]
        total == IF occupied_spaces = {} THEN 0
                 ELSE IF included = {} THEN 0
                 ELSE smooth(Max(count_clusters(included), 1), st.total_estimated)
    IN PresenceState(st.occupied, st.scores, total, st.last_event_ts, space_counts)

recalculate_totals(sp, st) ==
    LET occupied_spaces == {sid \in DOMAIN st.occupied : st.occupied[sid]}
        included == {sid \in occupied_spaces : counts_toward_total(sp, sid)}
        space_counts == [sid \in DOMAIN sp |-> IF sid \in occupied_spaces THEN 1 ELSE 0]
        total == IF occupied_spaces = {} THEN 0
                 ELSE IF included = {} THEN 0
                 ELSE smooth(Max(count_clusters(included), 1), st.total_estimated)
    IN PresenceState(st.occupied, st.scores, total, st.last_event_ts, space_counts)

\* ------------------------------------------------------------------------
\* _activate_space, _handle_link_lock, _compute_boost, _handle_link_activity
\* ------------------------------------------------------------------------
\* mutant: the activation does not stamp last_event_ts
activate_space_unstamped(st, space_id, ts) ==
    IF space_id \notin DOMAIN spaces THEN [state |-> st, changed |-> <<>>]
    ELSE [state |-> PresenceState(
                        Put(st.occupied, space_id, TRUE),
                        Put(st.scores, space_id, ONE),
                        st.total_estimated,
                        st.last_event_ts,
                        Put(st.space_counts, space_id, 1)),
          changed |-> <<space_id>>]

activate_space(st, space_id, ts) ==
    IF space_id \notin DOMAIN spaces THEN [state |-> st, changed |-> <<>>]
    ELSE [state |-> PresenceState(
                        Put(st.occupied, space_id, TRUE),
                        Put(st.scores, space_id, ONE),
                        st.total_estimated,
                        Put(st.last_event_ts, space_id, ts),
                        Put(st.space_counts, space_id, 1)),
          changed |-> <<space_id>>]

\* mutant: a lock, once set, is never released
handle_link_lock_latched(locked, link_id, new_state) ==
    IF state_is_locked(new_state) THEN locked \cup {link_id} ELSE locked

handle_link_lock(locked, link_id, new_state) ==
    IF state_is_locked(new_state) THEN locked \cup {link_id} ELSE locked \ {link_id}

\* mutant: a boost is always applied
no_gain_never(new_score, prev_score) == FALSE

\* new_score <= prev_score + 1e-6: the tolerance is below the fixed-point
\* resolution, so it is new_score <= prev_score
no_gain(new_score, prev_score) == new_score <= prev_score

compute_boost(st, space_id, ts) ==
    IF space_id \notin DOMAIN spaces THEN [state |-> st, boost |-> FALSE]
    ELSE LET prev_score == st.scores[space_id]
             new_score == Max(prev_score, BOOST_SCORE)
             applied == Min(ONE, new_score)
             occ == above_threshold(applied)
         IN IF no_gain(new_score, prev_score) THEN [state |-> st, boost |-> FALSE]
            ELSE [state |-> PresenceState(
                                Put(st.occupied, space_id, occ),
                                Put(st.scores, space_id, applied),
                                st.total_estimated,
                                Put(st.last_event_ts, space_id, ts),
                                IF occ THEN Put(st.space_counts, space_id, 1)
                                       ELSE st.space_counts),
                  boost |-> TRUE]

\* latency = link.traversal_latency_s or DEFAULT_TRAVERSAL_LATENCY
latency_of(link) ==
    IF link.traversal_latency_s = 0 THEN DEFAULT_TRAVERSAL_LATENCY
    ELSE link.traversal_latency_s

\* mutant: a traversal taking exactly the latency is too late
within_latency_strict(ts, last_activation, latency) == ts - last_activation < latency

\* ts - last_activation <= latency
within_latency(ts, last_activation, latency) == ts - last_activation <= latency

\* one iteration of "for source, target in candidates": acc = [state, changed]
propagate(acc, source, target, ts, latency) ==
    LET st == acc.state
        last_activation == IF source \in DOMAIN st.last_event_ts
                           THEN st.last_event_ts[source] ELSE 0
    IN IF last_activation # NegInf /\ within_latency(ts, last_activation, latency)
       THEN LET b == compute_boost(st, target, ts)
            IN [state |-> b.state,
                changed |-> IF b.boost THEN Append(acc.changed, target) ELSE acc.changed]
       ELSE acc

\* mutant: the lock set is not consulted
link_locked_never(locked, link_id) == FALSE

\* link_id in self._locked_links
link_locked(locked, link_id) == link_id \in locked

\* mutant: an event exactly LINK_EVENT_DEBOUNCE after the last is debounced
debounced_inclusive(lle, link_id, ts) ==
    link_id \in DOMAIN lle /\ ts - lle[link_id] <= LINK_EVENT_DEBOUNCE

\* the debounce test on the link's recorded last event
debounced(lle, link_id, ts) ==
    link_id \in DOMAIN lle /\ ts - lle[link_id] < LINK_EVENT_DEBOUNCE

\* mutant: a debounced event restarts the debounce window
handle_link_activity_restamping(st, locked, lle, link_id, ts) ==
    IF link_id \notin DOMAIN links
    THEN [state |-> st, last_link_event |-> lle, changed |-> <<>>]
    ELSE IF link_locked(locked, link_id)
    THEN [state |-> st, last_link_event |-> lle, changed |-> <<>>]
    ELSE IF debounced(lle, link_id, ts)
    THEN [state |-> st, last_link_event |-> Put(lle, link_id, ts), changed |-> <<>>]
    ELSE LET link == links[link_id]
             latency == latency_of(link)
             a0 == [state |-> st, changed |-> <<>>]
             a1 == propagate(a0, link.from_space, link.to_space, ts, latency)
             a2 == propagate(a1, link.to_space, link.from_space, ts, latency)
         IN [state |-> a2.state,
             last_link_event |-> Put(lle, link_id, ts),
             changed |-> sorted_unique(a2.changed)]

handle_link_activity(st, locked, lle, link_id, ts) ==
    IF link_id \notin DOMAIN links
    THEN [state |-> st, last_link_event |-> lle, changed |-> <<>>]
    ELSE IF link_locked(locked, link_id)
    THEN [state |-> st, last_link_event |-> lle, changed |-> <<>>]
    ELSE IF debounced(lle, link_id, ts)
    THEN [state |-> st, last_link_event |-> lle, changed |-> <<>>]
    ELSE LET link == links[link_id]
             latency == latency_of(link)
             a0 == [state |-> st, changed |-> <<>>]
             a1 == propagate(a0, link.from_space, link.to_space, ts, latency)
             a2 == propagate(a1, link.to_space, link.from_space, ts, latency)
         IN [state |-> a2.state,
             last_link_event |-> Put(lle, link_id, ts),
             changed |-> sorted_unique(a2.changed)]

\* ------------------------------------------------------------------------
\* process_event, force_space_state, set_space_inclusion, current_state
\* ------------------------------------------------------------------------
GraphEvent(entity_id, new_state, timestamp, duration) ==
    [entity_id |-> entity_id, new_state |-> new_state,
     timestamp |-> timestamp, duration |-> duration]

\* mutant: only a zero-length reading counts as a pulse
too_short_zero(duration) == duration # <<>> /\ duration[1] <= 0

\* event.duration is not None and event.duration < MIN_EVENT_DURATION
too_short(duration) == duration # <<>> /\ duration[1] < MIN_EVENT_DURATION

\* mutant: the decay-only return reports the remembered reason
decay_only_remembered(decayed, locked, lle, lr) ==
    [state |-> decayed, locked_links |-> locked, last_link_event |-> lle,
     last_reason |-> lr, update |-> GraphUpdate(<<>>, lr, None, None, None)]

\* return GraphUpdate(self._state, [], ATTR_REASON_DECAY) after the decay pass
decay_only(decayed, locked, lle, lr) ==
    [state |-> decayed, locked_links |-> locked, last_link_event |-> lle,
     last_reason |-> lr,
     update |-> GraphUpdate(<<>>, ATTR_REASON_DECAY, None, None, None)]

\* mutant: an event always reports and remembers its own reason
reported_reason_own(changed, reason, lr) == reason

\* if changed: self._last_reason = reason; else: reason = self._last_reason
reported_reason(changed, reason, lr) == IF changed # <<>> THEN reason ELSE lr

\* the engine after process_event(event), and the GraphUpdate it returns
process_event(st, locked, lle, lr, event) ==
    LET ts == event.timestamp
        decayed == apply_decay(st, ts)
    IN IF event.entity_id \notin DOMAIN entity_index
       THEN decay_only(decayed, locked, lle, lr)
       ELSE IF too_short(event.duration)
       THEN decay_only(decayed, locked, lle, lr)
       ELSE
       LET event_type == entity_index[event.entity_id].kind
           target_id == entity_index[event.entity_id].target
           activated == activate_space(decayed, target_id, ts)
           link_act == handle_link_activity(decayed, locked, lle, target_id, ts)
           st1 == IF event_type = "space"
                  THEN (IF is_on_state(event.new_state) THEN activated.state ELSE decayed)
                  ELSE IF event_type = "link_lock" THEN decayed
                  ELSE link_act.state
           changed == IF event_type = "space"
                      THEN (IF is_on_state(event.new_state) THEN activated.changed ELSE <<>>)
                      ELSE IF event_type = "link_lock" THEN <<>>
                      ELSE link_act.changed
           reason == IF event_type = "space"
                     THEN (IF is_on_state(event.new_state) THEN ATTR_REASON_SENSOR
                           ELSE ATTR_REASON_DECAY)
                     ELSE ATTR_REASON_LINK
           locked1 == IF event_type = "link_lock"
                      THEN handle_link_lock(locked, target_id, event.new_state)
                      ELSE locked
           lle1 == IF event_type \in {"space", "link_lock"} THEN lle
                   ELSE link_act.last_link_event
           lr1 == reported_reason(changed, reason, lr)
       IN [state |-> recalculate_totals(spaces, st1),
           locked_links |-> locked1,
           last_link_event |-> lle1,
           last_reason |-> lr1,
           update |-> GraphUpdate(changed, lr1, event.entity_id,
                                  IF event_type = "space" THEN target_id ELSE None,
                                  IF event_type # "space" THEN target_id ELSE None)]

\* mutant: the requested score is applied as given
score_to_apply_unclamped(occupied, score) ==
    IF score # <<>> THEN score[1] ELSE (IF occupied THEN ONE ELSE 0)

\* max(0.0, min(1.0, score if score is not None else (1.0 if occupied else 0.0)))
score_to_apply(occupied, score) ==
    Max(0, Min(ONE, IF score # <<>> THEN score[1] ELSE (IF occupied THEN ONE ELSE 0)))

\* occupied if occupied else score_to_apply > self._decay_threshold
forced_occupied(occupied, applied) ==
    IF occupied THEN occupied ELSE above_threshold(applied)

\* mutant: an unknown space id still recomputes the totals
force_unknown_refreshing(st, reason) ==
    [state |-> recalculate_totals(spaces, st),
     update |-> GraphUpdate(<<>>, reason, None, None, None)]

\* if space_id not in self._spaces: return GraphUpdate(self._state, [], reason)
force_unknown(st, reason) ==
    [state |-> st, update |-> GraphUpdate(<<>>, reason, None, None, None)]

\* the state after force_space_state, and the GraphUpdate it returns;
\* ts is the reading of time_func
force_space_state(st, space_id, occupied, score, reason, ts) ==
    IF space_id \notin DOMAIN spaces
    THEN force_unknown(st, reason)
    ELSE LET applied == score_to_apply(occupied, score)
             st1 == PresenceState(
                        Put(st.occupied, space_id, forced_occupied(occupied, applied)),
                        Put(st.scores, space_id, applied),
                        st.total_estimated,
                        IF occupied THEN Put(st.last_event_ts, space_id, ts)
                                    ELSE st.last_event_ts,
                        st.space_counts)
         IN [state |-> recalculate_totals(spaces, st1),
             update |-> GraphUpdate(<<space_id>>, reason, None, space_id, None)]

\* mutant: the inclusion change runs a decay pass at the clock first
set_space_inclusion_decaying(st, space_id, include) ==
    IF space_id \in DOMAIN spaces
    THEN LET sp == [spaces EXCEPT ![space_id].include_in_total = include]
         IN [spaces |-> sp, state |-> recalculate_totals(sp, apply_decay(st, clock))]
    ELSE [spaces |-> spaces, state |-> st]

\* the spaces and the state after set_space_inclusion
set_space_inclusion(st, space_id, include) ==
    IF space_id \in DOMAIN spaces
    THEN LET sp == [spaces EXCEPT ![space_id].include_in_total = include]
         IN [spaces |-> sp, state |-> recalculate_totals(sp, st)]
    ELSE [spaces |-> spaces, state |-> st]

\* the state current_state returns; now is the reading of time_func
current_state(st, now) == apply_decay(st, now)

\* ------------------------------------------------------------------------
\* The installed model and the inputs explored
\* ------------------------------------------------------------------------
\* the test fixtures' graph (conftest.py), with timeouts and latency scaled
\* down so that a run of MaxTime seconds sees a full decay
SampleSpaces ==
    << Space("living", TRUE, <<"binary_sensor.living_motion">>, <<>>, 5),
       Space("kitchen", TRUE, <<"binary_sensor.kitchen_motion">>, <<>>, 2) >>

SampleLinks ==
    << Link("living_kitchen", "living", "kitchen",
            <<"binary_sensor.link_motion">>, <<"binary_sensor.link_contact">>,
            <<"lock.link">>, 3) >>

\* an event as the event source hands it over, before it is stamped
Reading(entity_id, new_state, duration) ==
    [entity_id |-> entity_id, new_state |-> new_state, duration |-> duration]

\* the readings delivered: each sensor of the graph active and inactive, the
\* lock locked and unlocked, an entity the engine does not track, and a pulse
\* shorter than MIN_EVENT_DURATION
Readings ==
    { Reading("binary_sensor.living_motion", Str("on"), <<>>),
      Reading("binary_sensor.living_motion", Str("off"), <<MIN_EVENT_DURATION>>),
      Reading("binary_sensor.kitchen_motion", Bool(TRUE), <<>>),
      Reading("binary_sensor.kitchen_motion", Str("on"), <<1>>),
      Reading("binary_sensor.link_motion", Str("on"), <<>>),
      Reading("binary_sensor.link_contact", Str("Open"), <<MIN_EVENT_DURATION>>),
      Reading("lock.link", Str("Locked"), <<>>),
      Reading("lock.link", Str("unlocked"), <<>>),
      Reading("unknown", Str("on"), <<>>) }

\* the arguments force_space_state is called with: <<space_id, occupied, score>>
ForceCalls ==
    { <<"living", TRUE, <<2 * ONE>>>>,
      <<"kitchen", TRUE, <<ONE \div 10>>>>,
      <<"kitchen", FALSE, <<>>>>,
      <<"attic", TRUE, <<>>>> }

\* the arguments set_space_inclusion is called with: <<space_id, include>>
InclusionCalls ==
    { <<"kitchen", FALSE>>, <<"kitchen", TRUE>>, <<"attic", FALSE>> }

\* the timestamps an event delivered now may carry
Timestamps == {t \in 0..clock : clock - t <= MaxLag}

\* ------------------------------------------------------------------------
\* Actions: one per public method
\* ------------------------------------------------------------------------
Install(m) ==
    /\ ~m.raised
    /\ spaces' = m.spaces
    /\ links' = m.links
    /\ entity_index' = m.entity_index
    /\ adjacency' = m.adjacency
    /\ state' = m.state
    /\ locked_links' = m.locked_links
    /\ last_link_event' = m.last_link_event
    /\ last_reason' = m.last_reason
    /\ UNCHANGED <<clock, options>>

InitEngine ==
    LET m == set_model(SampleSpaces, SampleLinks)
    IN /\ ~m.raised
       /\ spaces = m.spaces
       /\ links = m.links
       /\ entity_index = m.entity_index
       /\ adjacency = m.adjacency
       /\ state = m.state
       /\ locked_links = m.locked_links
       /\ last_link_event = m.last_link_event
       /\ last_reason = m.last_reason
       /\ clock = 0
       /\ options = NoOptions

Untracked == [s \in {"living", "kitchen"} |-> NegInf]

Init ==
    /\ InitEngine
    /\ decayed_at = Untracked
    /\ reason_log = ATTR_REASON_DECAY
    /\ lock_log = NoLockLog
    /\ flow = NoFlow

SetModel == Install(set_model(SampleSpaces, SampleLinks))

\* process_event has run with the result r
Processed(r) ==
    /\ state' = r.state
    /\ locked_links' = r.locked_links
    /\ last_link_event' = r.last_link_event
    /\ last_reason' = r.last_reason
    /\ UNCHANGED <<spaces, links, entity_index, adjacency, clock, options>>

ProcessEvent(entity_id, new_state, ts, duration) ==
    \E r \in {process_event(state, locked_links, last_link_event, last_reason,
                             GraphEvent(entity_id, new_state, ts, duration))} :
       Processed(r)

ForceSpaceState(space_id, occupied, score) ==
    \E r \in {force_space_state(state, space_id, occupied, score,
                                 ATTR_REASON_FORCED, clock)} :
       /\ state' = r.state
       /\ UNCHANGED <<spaces, links, entity_index, adjacency, locked_links,
                      last_link_event, last_reason, clock, options>>

SetSpaceInclusion(space_id, include) ==
    \E r \in {set_space_inclusion(state, space_id, include)} :
       /\ spaces' = r.spaces
       /\ state' = r.state
       /\ UNCHANGED <<links, entity_index, adjacency, locked_links,
                      last_link_event, last_reason, clock, options>>

CurrentState ==
    /\ state' = current_state(state, clock)
    /\ UNCHANGED <<spaces, links, entity_index, adjacency, locked_links,
                   last_link_event, last_reason, clock, options>>

\* the environment: a second passes, up to limit
AdvanceTo(limit) ==
    /\ clock < limit
    /\ clock' = clock + 1
    /\ UNCHANGED <<spaces, links, entity_index, adjacency, state, locked_links,
                   last_link_event, last_reason, options>>

Advance == AdvanceTo(MaxTime)

Next ==
    \/ SetModel /\ UNCHANGED <<history, flow>>
    \/ \E r \in Readings, ts \in Timestamps :
          ProcessEvent(r.entity_id, r.new_state, ts, r.duration) /\ UNCHANGED <<history, flow>>
    \/ \E c \in ForceCalls : ForceSpaceState(c[1], c[2], c[3]) /\ UNCHANGED <<history, flow>>
    \/ \E c \in InclusionCalls : SetSpaceInclusion(c[1], c[2]) /\ UNCHANGED <<history, flow>>
    \/ CurrentState /\ UNCHANGED <<history, flow>>
    \/ Advance /\ UNCHANGED <<history, flow>>

Spec == Init /\ [][Next]_vars

\* ------------------------------------------------------------------------
\* SpecDecay: the same engine and inputs (set_space_inclusion, which touches
\* no score, left out), with the history variable kept
\* ------------------------------------------------------------------------
\* a decay pass for time now has run
Decayed(hist, now) ==
    [s \in DOMAIN hist |-> IF hist[s] = NegInf THEN NegInf ELSE Max(hist[s], now)]

\* process_event has returned update for an event stamped ts
Tracked(hist, update, ts) ==
    [s \in DOMAIN hist |->
        IF s \in SeqToSet(update.changed)
        THEN (IF update.reason = ATTR_REASON_SENSOR THEN ts ELSE NegInf)
        ELSE Decayed(hist, ts)[s]]

\* process_event for entity_id has returned update: what the claimed rule
\* remembers, the event's own reason when it changed a space
Remembered(log, entity_id, update) ==
    IF update.changed = <<>> THEN log
    ELSE IF entity_index[entity_id].kind = "space" THEN ATTR_REASON_SENSOR
    ELSE ATTR_REASON_LINK

NextDecay ==
    \/ /\ SetModel /\ decayed_at' = Untracked /\ reason_log' = ATTR_REASON_DECAY
       /\ UNCHANGED <<lock_log, flow>>
    \/ \E r \in Readings, ts \in Timestamps :
          \E res \in {process_event(state, locked_links, last_link_event, last_reason,
                                     GraphEvent(r.entity_id, r.new_state, ts,
                                                r.duration))} :
             /\ Processed(res)
             /\ decayed_at' = Tracked(decayed_at, res.update, ts)
             /\ reason_log' = Remembered(reason_log, r.entity_id, res.update)
             /\ UNCHANGED <<lock_log, flow>>
    \/ \E c \in ForceCalls :
          /\ ForceSpaceState(c[1], c[2], c[3])
          /\ decayed_at' = [s \in DOMAIN decayed_at |->
                                IF s = c[1] THEN NegInf ELSE decayed_at[s]]
          /\ UNCHANGED <<reason_log, lock_log, flow>>
    \/ /\ CurrentState /\ decayed_at' = Decayed(decayed_at, clock)
       /\ UNCHANGED <<reason_log, lock_log, flow>>
    \/ Advance /\ UNCHANGED <<history, flow>>

SpecDecay == Init /\ [][NextDecay]_vars

\* The engine with the remembered reason logged: events arrive in order,
\* stamped with the clock, over a shorter time than in SpecDecay.
MaxTimeReasons == 3

ReasonsForceCalls == { <<"kitchen", TRUE, <<>>>>, <<"living", FALSE, <<>>>> }

NextReasons ==
    \/ SetModel /\ reason_log' = ATTR_REASON_DECAY /\ UNCHANGED <<decayed_at, lock_log, flow>>
    \/ \E r \in Readings :
          \E res \in {process_event(state, locked_links, last_link_event, last_reason,
                                     GraphEvent(r.entity_id, r.new_state, clock,
                                                r.duration))} :
             /\ Processed(res)
             /\ reason_log' = Remembered(reason_log, r.entity_id, res.update)
             /\ UNCHANGED <<decayed_at, lock_log, flow>>
    \/ \E c \in ReasonsForceCalls :
          ForceSpaceState(c[1], c[2], c[3]) /\ UNCHANGED <<history, flow>>
    \/ CurrentState /\ UNCHANGED <<history, flow>>
    \/ AdvanceTo(MaxTimeReasons) /\ UNCHANGED <<history, flow>>

SpecReasons == Init /\ [][NextReasons]_vars

\* ------------------------------------------------------------------------
\* SpecTotals: a star of four spaces, where the clusters of occupied spaces
\* split and merge; the leaves take the default timeout (timeout_s = 0)
\* ------------------------------------------------------------------------
\* the clock of SpecTotals stops at MaxTimeTotals
MaxTimeTotals == 1

TotalsSpaces ==
    << Space("hall", TRUE, <<"binary_sensor.hall_motion">>, <<>>, 1),
       Space("living", TRUE, <<"binary_sensor.living_motion">>, <<>>, 0),
       Space("kitchen", TRUE, <<>>, <<"binary_sensor.kitchen_presence">>, 0),
       Space("office", TRUE, <<"binary_sensor.office_motion">>, <<>>, 0) >>

TotalsLinks ==
    << Link("hall_living", "hall", "living", <<"binary_sensor.door_motion">>, <<>>, <<>>, 0),
       Link("hall_kitchen", "hall", "kitchen", <<>>, <<>>, <<>>, 0),
       Link("hall_office", "hall", "office", <<>>, <<>>, <<>>, 0) >>

TotalsReadings ==
    { Reading("binary_sensor.hall_motion", Str("on"), <<>>),
      Reading("binary_sensor.living_motion", Str("ON"), <<>>),
      Reading("binary_sensor.kitchen_presence", Str("Home"), <<>>),
      Reading("binary_sensor.office_motion", Num(1), <<>>),
      Reading("binary_sensor.door_motion", Str("on"), <<>>),
      Reading("unknown", Str("on"), <<>>) }

TotalsForceCalls == { <<"hall", FALSE, <<>>>>, <<"office", FALSE, <<>>>> }

TotalsInclusionCalls == { <<"hall", FALSE>>, <<"hall", TRUE>>, <<"kitchen", FALSE>> }

InitTotals ==
    LET m == set_model(TotalsSpaces, TotalsLinks)
    IN /\ ~m.raised
       /\ spaces = m.spaces
       /\ links = m.links
       /\ entity_index = m.entity_index
       /\ adjacency = m.adjacency
       /\ state = m.state
       /\ locked_links = m.locked_links
       /\ last_link_event = m.last_link_event
       /\ last_reason = m.last_reason
       /\ clock = 0
       /\ options = NoOptions
       /\ decayed_at = Untracked
       /\ reason_log = ATTR_REASON_DECAY
       /\ lock_log = NoLockLog
       /\ flow = NoFlow

NextTotals ==
    \/ Install(set_model(TotalsSpaces, TotalsLinks)) /\ UNCHANGED <<history, flow>>
    \/ \E r \in TotalsReadings :
          ProcessEvent(r.entity_id, r.new_state, clock, r.duration) /\ UNCHANGED <<history, flow>>
    \/ \E c \in TotalsForceCalls :
          ForceSpaceState(c[1], c[2], c[3]) /\ UNCHANGED <<history, flow>>
    \/ \E c \in TotalsInclusionCalls :
          SetSpaceInclusion(c[1], c[2]) /\ UNCHANGED <<history, flow>>
    \/ CurrentState /\ UNCHANGED <<history, flow>>
    \/ AdvanceTo(MaxTimeTotals) /\ UNCHANGED <<history, flow>>

SpecTotals == InitTotals /\ [][NextTotals]_vars

\* The same house with the sensors, the two overrides and the clock only:
\* the inclusion flags stay as installed.
MaxTimeSensors == 1

NextSensors ==
    \/ Install(set_model(TotalsSpaces, TotalsLinks)) /\ UNCHANGED <<history, flow>>
    \/ \E r \in TotalsReadings :
          ProcessEvent(r.entity_id, r.new_state, clock, r.duration) /\ UNCHANGED <<history, flow>>
    \/ \E c \in TotalsForceCalls :
          ForceSpaceState(c[1], c[2], c[3]) /\ UNCHANGED <<history, flow>>
    \/ CurrentState /\ UNCHANGED <<history, flow>>
    \/ AdvanceTo(MaxTimeSensors) /\ UNCHANGED <<history, flow>>

SpecSensors == InitTotals /\ [][NextSensors]_vars

\* The star model driven by overrides and inclusion changes while the clock
\* advances: no sensor or link event arrives.
MaxTimeInclusion == 2

StarForceCalls ==
    {<<s, TRUE, <<>>>> : s \in {"hall", "living", "kitchen", "office"}}
       \cup { <<"office", FALSE, <<>>>>, <<"living", FALSE, <<ONE \div 2>>>> }

StarInclusionCalls == {<<s, include>> : s \in {"hall", "kitchen"}, include \in BOOLEAN}

NextInclusion ==
    \/ Install(set_model(TotalsSpaces, TotalsLinks)) /\ UNCHANGED <<history, flow>>
    \/ \E c \in StarForceCalls :
          ForceSpaceState(c[1], c[2], c[3]) /\ UNCHANGED <<history, flow>>
    \/ \E c \in StarInclusionCalls :
          SetSpaceInclusion(c[1], c[2]) /\ UNCHANGED <<history, flow>>
    \/ CurrentState /\ UNCHANGED <<history, flow>>
    \/ AdvanceTo(MaxTimeInclusion) /\ UNCHANGED <<history, flow>>

SpecInclusion == InitTotals /\ [][NextInclusion]_vars

\* ------------------------------------------------------------------------
\* SpecManual: the fixtures' graph under manual overrides and inclusion
\* changes of every shape, with events stamped by the clock
\* ------------------------------------------------------------------------
\* the clock of SpecManual stops at MaxTimeManual
MaxTimeManual == 2

ManualReadings ==
    { Reading("binary_sensor.living_motion", Str("on"), <<>>),
      Reading("binary_sensor.kitchen_motion", Str("on"), <<>>),
      Reading("lock.link", Str("Locked"), <<>>),
      Reading("lock.link", Str("unlocked"), <<>>),
      Reading("unknown", Str("on"), <<>>) }

\* <<space_id, occupied, score>>: scores above 1, below 0, on either side of
\* the threshold and absent, with occupied true and false
ManualForceCalls ==
    { <<"living", TRUE, <<2 * ONE>>>>,
      <<"living", FALSE, <<ONE \div 2>>>>,
      <<"living", FALSE, <<DEFAULT_DECAY_THRESHOLD>>>>,
      <<"kitchen", TRUE, <<>>>>,
      <<"kitchen", TRUE, <<0 - ONE>>>>,
      <<"kitchen", FALSE, <<>>>>,
      <<"attic", TRUE, <<>>>> }

ManualInclusionCalls ==
    { <<"kitchen", FALSE>>, <<"kitchen", TRUE>>, <<"living", FALSE>>,
      <<"living", TRUE>>, <<"attic", FALSE>> }

NextManual ==
    \/ SetModel /\ UNCHANGED <<history, flow>>
    \/ \E r \in ManualReadings :
          ProcessEvent(r.entity_id, r.new_state, clock, r.duration) /\ UNCHANGED <<history, flow>>
    \/ \E c \in ManualForceCalls :
          ForceSpaceState(c[1], c[2], c[3]) /\ UNCHANGED <<history, flow>>
    \/ \E c \in ManualInclusionCalls :
          SetSpaceInclusion(c[1], c[2]) /\ UNCHANGED <<history, flow>>
    \/ CurrentState /\ UNCHANGED <<history, flow>>
    \/ AdvanceTo(MaxTimeManual) /\ UNCHANGED <<history, flow>>

SpecManual == Init /\ [][NextManual]_vars

\* ------------------------------------------------------------------------
\* SpecModels: four spaces under several link layouts, installed by the
\* constructor and replaced by set_model; the clock stands still
\* ------------------------------------------------------------------------
\* hall - living, hall - kitchen, kitchen - office in a row
ChainLinks ==
    << Link("hall_living", "hall", "living", <<"binary_sensor.door_motion">>, <<>>,
            <<"lock.door">>, 0),
       Link("hall_kitchen", "hall", "kitchen", <<>>, <<>>, <<>>, 0),
       Link("kitchen_office", "kitchen", "office", <<>>, <<>>, <<>>, 0) >>

\* hall, living and kitchen in a ring, the office on its own; the office's
\* motion sensor is also the contact sensor of the link living - kitchen
RingLinks ==
    << Link("hall_living", "hall", "living", <<"binary_sensor.door_motion">>, <<>>,
            <<"lock.door">>, 0),
       Link("living_kitchen", "living", "kitchen", <<>>,
            <<"binary_sensor.office_motion">>, <<>>, 0),
       Link("kitchen_hall", "kitchen", "hall", <<>>, <<>>, <<>>, 0) >>

\* a link to a space that does not exist, which shares a motion sensor with
\* the hall, a link from a space to itself and two links between one pair of
\* spaces
OddLinks ==
    << Link("hall_garage", "hall", "garage",
            <<"binary_sensor.door_motion", "binary_sensor.hall_motion">>, <<>>,
            <<"lock.door">>, 0),
       Link("hall_hall", "hall", "hall", <<>>, <<>>, <<>>, 0),
       Link("kitchen_office", "kitchen", "office", <<>>, <<>>, <<>>, 0),
       Link("office_kitchen", "office", "kitchen", <<>>, <<>>, <<>>, 0) >>

\* two links under one id
TwinLinks ==
    << Link("door", "hall", "living", <<"binary_sensor.door_motion">>, <<>>,
            <<"lock.door">>, 0),
       Link("door", "kitchen", "office", <<>>, <<>>, <<>>, 0) >>

\* two spaces under one id
TwinSpaces ==
    TotalsSpaces \o << Space("hall", FALSE, <<"binary_sensor.hall_presence">>, <<>>, 0) >>

\* the <<spaces, links>> pairs handed to the constructor and to set_model
Models ==
    { <<TotalsSpaces, TotalsLinks>>, <<TotalsSpaces, ChainLinks>>,
      <<TotalsSpaces, RingLinks>>, <<TotalsSpaces, OddLinks>>,
      <<TotalsSpaces, <<>>>>, <<TotalsSpaces, TwinLinks>>,
      <<TwinSpaces, ChainLinks>>, <<SampleSpaces, SampleLinks>> }

ModelsReadings ==
    { Reading("binary_sensor.hall_motion", Str("on"), <<>>),
      Reading("binary_sensor.door_motion", Str("on"), <<>>),
      Reading("lock.door", Str("locked"), <<>>) }

ModelsForceCalls ==
    {<<s, o, <<>>>> : s \in {"hall", "living", "kitchen", "office"}, o \in BOOLEAN}

ModelsInclusionCalls == { <<"hall", FALSE>>, <<"hall", TRUE>>, <<"kitchen", FALSE>> }

InitModels ==
    \E m \in Models :
       \E e \in {set_model(m[1], m[2])} :
          /\ ~e.raised
          /\ spaces = e.spaces
          /\ links = e.links
          /\ entity_index = e.entity_index
          /\ adjacency = e.adjacency
          /\ state = e.state
          /\ locked_links = e.locked_links
          /\ last_link_event = e.last_link_event
          /\ last_reason = e.last_reason
          /\ clock = 0
          /\ options = NoOptions
          /\ decayed_at = Untracked
          /\ reason_log = ATTR_REASON_DECAY
          /\ lock_log = NoLockLog
          /\ flow = NoFlow

NextModels ==
    \/ \E m \in Models : Install(set_model(m[1], m[2])) /\ UNCHANGED <<history, flow>>
    \/ \E r \in ModelsReadings :
          ProcessEvent(r.entity_id, r.new_state, clock, r.duration) /\ UNCHANGED <<history, flow>>
    \/ \E c \in ModelsForceCalls :
          ForceSpaceState(c[1], c[2], c[3]) /\ UNCHANGED <<history, flow>>
    \/ \E c \in ModelsInclusionCalls :
          SetSpaceInclusion(c[1], c[2]) /\ UNCHANGED <<history, flow>>

SpecModels == InitModels /\ [][NextModels]_vars

\* The same models driven by overrides and inclusion changes only: every
\* occupancy pattern of every model, without the sensor and link entities.
NextClusters ==
    \/ \E m \in Models : Install(set_model(m[1], m[2])) /\ UNCHANGED <<history, flow>>
    \/ \E c \in ModelsForceCalls :
          ForceSpaceState(c[1], c[2], c[3]) /\ UNCHANGED <<history, flow>>
    \/ \E c \in ModelsInclusionCalls :
          SetSpaceInclusion(c[1], c[2]) /\ UNCHANGED <<history, flow>>

SpecClusters == InitModels /\ [][NextClusters]_vars

\* ------------------------------------------------------------------------
\* Steps of the engine, by the method called
\* ------------------------------------------------------------------------
EventInputs == (Readings \cup TotalsReadings) \X (0..clock)

ProcessEventStep ==
    \E i \in EventInputs :
        ProcessEvent(i[1].entity_id, i[1].new_state, i[2], i[1].duration)

ForceStep ==
    \E c \in ForceCalls \cup TotalsForceCalls : ForceSpaceState(c[1], c[2], c[3])

InclusionStep ==
    \E c \in InclusionCalls \cup TotalsInclusionCalls : SetSpaceInclusion(c[1], c[2])

\* occupied[s] = (scores[s] > 0.2) for every space of st
ThresholdConsistent(st) ==
    \A s \in DOMAIN st.occupied :
        st.occupied[s] = (st.scores[s] > DEFAULT_DECAY_THRESHOLD)

\* no space with include_in_total = true is occupied in st
NoIncludedOccupied(sp, st) ==
    \A s \in DOMAIN sp : ~(sp[s].include_in_total /\ st.occupied[s])

\* ------------------------------------------------------------------------
\* C1: in the state left by every process_event, current_state and
\* set_space_inclusion call, a space is occupied exactly when its score is
\* above 0.2, whatever calls (forced updates included) came before.
\* ------------------------------------------------------------------------
C1_OccupiedIffAboveThreshold ==
    [][(ProcessEventStep \/ CurrentState \/ InclusionStep)
          => ThresholdConsistent(state')]_vars

\* ------------------------------------------------------------------------
\* What the calls would return from the current state
\* ------------------------------------------------------------------------
\* process_event for the reading r stamped ts
EventResult(r, ts) ==
    process_event(state, locked_links, last_link_event, last_reason,
                  GraphEvent(r.entity_id, r.new_state, ts, r.duration))

\* force_space_state for the call c
ForceResult(c) ==
    force_space_state(state, c[1], c[2], c[3], ATTR_REASON_FORCED, clock)

\* no score of st is above the score before, none of its spaces newly occupied
NothingRaised(before, st) ==
    \A s \in DOMAIN before.scores :
        /\ st.scores[s] <= before.scores[s]
        /\ st.occupied[s] => before.occupied[s]

\* the entity ids the index maps to a space, and to the motion and contact
\* sensors of a link
SpaceEntities == {e \in DOMAIN entity_index : entity_index[e].kind = "space"}

LinkActivityEntities ==
    {e \in DOMAIN entity_index : entity_index[e].kind \in {"link_motion", "link_contact"}}

\* ------------------------------------------------------------------------
\* C2: one process_event or force_space_state call leaves total_estimated at
\* most 1 above its value before the call, and never negative.
\* ------------------------------------------------------------------------
C2_TotalRisesByAtMostOne ==
    /\ \A r \in TotalsReadings, ts \in Timestamps :
          \E res \in {EventResult(r, ts)} :
             /\ res.state.total_estimated <= state.total_estimated + 1
             /\ res.state.total_estimated >= 0
    /\ \A c \in TotalsForceCalls \cup ForceCalls :
          \E res \in {ForceResult(c)} :
             /\ res.state.total_estimated <= state.total_estimated + 1
             /\ res.state.total_estimated >= 0
    /\ state.total_estimated >= 0

\* three clusters are occupied and the smoothed total is still catching up
C2_Witness ==
    /\ count_clusters({s \in DOMAIN spaces :
                          state.occupied[s] /\ spaces[s].include_in_total}) = 3
    /\ state.total_estimated = 2

\* ------------------------------------------------------------------------
\* C3: in every state returned by process_event and by current_state,
\* total_estimated is 0 whenever no included space is occupied.
\* ------------------------------------------------------------------------
C3_TotalZeroWhenNoneOccupied ==
    [][(ProcessEventStep \/ CurrentState)
          => (NoIncludedOccupied(spaces', state') => state'.total_estimated = 0)]_vars


\* ------------------------------------------------------------------------
\* C4: a space-sensor event with an active value (true, a positive number,
\* or on/open/true/home/locked/unlocked in any case) and a duration absent or
\* at least 0.5 s leaves the sensor's space with score 1.0, occupied, stamped
\* with the event's timestamp and counted 1, and returns changed = [s] with
\* reason sensor; with an inactive value it raises no score and returns
\* changed = [].
\* ------------------------------------------------------------------------
ActiveValues ==
    { Bool(TRUE), Num(1), Str("on"), Str("Open"), Str("TRUE"), Str("Home"),
      Str("Locked"), Str("UNLOCKED") }

InactiveValues == { Bool(FALSE), Num(0), Str("off"), Str("closed"), NoneValue }

LongEnough == { <<>>, <<MIN_EVENT_DURATION>> }

\* the claim's outcome of the reading r stamped ts, by the value it carries
SensorOutcome(r, ts) ==
    \E res \in {EventResult(r, ts)} :
       LET s == entity_index[r.entity_id].target IN
       IF r.new_state \in ActiveValues
       THEN /\ res.state.scores[s] = ONE
            /\ res.state.occupied[s]
            /\ res.state.last_event_ts[s] = ts
            /\ res.state.space_counts[s] = 1
            /\ res.update.changed = <<s>>
            /\ res.update.reason = ATTR_REASON_SENSOR
       ELSE /\ \A x \in DOMAIN spaces : res.state.scores[x] <= state.scores[x]
            /\ res.update.changed = <<>>

\* every value in an event delivered now without a duration, and an active
\* and an inactive value in an event of 0.5 s with every timestamp
C4_SensorEventActivates ==
    /\ \A e \in SpaceEntities, v \in ActiveValues \cup InactiveValues :
          SensorOutcome(Reading(e, v, <<>>), clock)
    /\ \A e \in SpaceEntities, v \in {Str("Open"), Num(0)}, ts \in Timestamps :
          SensorOutcome(Reading(e, v, <<MIN_EVENT_DURATION>>), ts)

\* the kitchen has just been activated by its presence sensor, after the
\* hall, activated a second earlier, has decayed to 0
C4_Witness ==
    /\ state.scores["kitchen"] = ONE
    /\ state.occupied["kitchen"]
    /\ state.last_event_ts["kitchen"] = clock
    /\ state.space_counts["kitchen"] = 1
    /\ last_reason = ATTR_REASON_SENSOR
    /\ clock = 1
    /\ state.last_event_ts["hall"] = 0
    /\ state.scores["hall"] = 0

\* ------------------------------------------------------------------------
\* C5: an event whose duration is given and below 0.5 s activates nothing,
\* whatever kind of entity it is for: it returns changed = [] and reason
\* decay, no space becomes occupied, no score rises, locked_links and the
\* links' debounce timestamps stay as they were; only the decay pass has run.
\* ------------------------------------------------------------------------
\* an active value for an entity of each kind, tracked or not, and both
\* values of the lock: <<entity id, value>>
Pulses ==
    { <<"binary_sensor.living_motion", Str("on")>>,
      <<"binary_sensor.kitchen_motion", Bool(TRUE)>>,
      <<"binary_sensor.link_motion", Str("on")>>,
      <<"binary_sensor.link_contact", Str("Open")>>,
      <<"lock.link", Str("Locked")>>,
      <<"lock.link", Str("unlocked")>>,
      <<"unknown", Str("on")>> }

TooShort == { <<0>>, <<MIN_EVENT_DURATION - 1>> }

\* the claim's outcome of the pulse r stamped ts
PulseOutcome(r, ts) ==
    \E res \in {EventResult(r, ts)} :
       /\ res.update.changed = <<>>
       /\ res.update.reason = ATTR_REASON_DECAY
       /\ NothingRaised(state, res.state)
       /\ res.locked_links = locked_links
       /\ res.last_link_event = last_link_event
       /\ res.state = apply_decay(state, ts)

\* every pulse of 0.4 s delivered now, and with each kind of entity a pulse
\* of no length with every timestamp
C5_ShortPulseIgnored ==
    /\ \A p \in Pulses :
          PulseOutcome(Reading(p[1], p[2], <<MIN_EVENT_DURATION - 1>>), clock)
    /\ \A e \in {"binary_sensor.living_motion", "binary_sensor.link_motion", "lock.link"},
          ts \in Timestamps :
          PulseOutcome(Reading(e, Str("on"), <<0>>), ts)

\* a pulse arrives that would have changed a space had it lasted, and the
\* decay pass it runs lowers a score
C5_Witness ==
    \E p \in Pulses, d \in TooShort :
       /\ EventResult(Reading(p[1], p[2], <<>>), clock).update.changed # <<>>
       /\ EventResult(Reading(p[1], p[2], d), clock).state # state

\* ------------------------------------------------------------------------
\* C6: while a link is locked, every motion and contact event on it returns
\* changed = [], raises no score and makes no space occupied, however
\* recently its endpoints were activated.
\* ------------------------------------------------------------------------
LinkEventValues == { Str("on"), Str("off") }

AnyDuration == LongEnough \cup TooShort

C6_LockedLinkBlocks ==
    \A e \in LinkActivityEntities :
       entity_index[e].target \in locked_links =>
          \A v \in LinkEventValues, d \in LongEnough \cup {<<0>>}, ts \in Timestamps :
             \E res \in {EventResult(Reading(e, v, d), ts)} :
                /\ res.update.changed = <<>>
                /\ NothingRaised(state, res.state)

\* the link is locked, the living room was activated within the latency, the
\* kitchen is below the boost score and the link is outside its debounce
\* window: unlocked, the event would have boosted the kitchen
C6_Witness ==
    /\ "living_kitchen" \in locked_links
    /\ state.last_event_ts["living"] # NegInf
    /\ clock - state.last_event_ts["living"] <= links["living_kitchen"].traversal_latency_s
    /\ state.scores["kitchen"] < BOOST_SCORE
    /\ "living_kitchen" \in DOMAIN last_link_event
          => clock - last_link_event["living_kitchen"] >= LINK_EVENT_DEBOUNCE

\* ------------------------------------------------------------------------
\* C7: on an unlocked link between A and B outside its debounce window, when
\* A's last_event_ts is finite and at most the link's traversal latency
\* before the event, and B's decayed score is below 0.6, a motion or contact
\* event leaves B with score 0.6, occupied, stamped with the event's
\* timestamp, and returns B in changed with reason link_event.
\* ------------------------------------------------------------------------
\* no event is recorded for the link, or the recorded one is 2.0 s or more
\* before ts
OutsideDebounceWindow(link_id, ts) ==
    link_id \in DOMAIN last_link_event
        => ts - last_link_event[link_id] >= LINK_EVENT_DEBOUNCE

\* the two directions of a link
Directions(link) ==
    { <<link.from_space, link.to_space>>, <<link.to_space, link.from_space>> }

\* the claim's conditions on the link of entity e for an event at ts going
\* from A = ab[1] to B = ab[2]
TraversalExpected(e, ts, ab) ==
    LET l == entity_index[e].target IN
    /\ l \notin locked_links
    /\ OutsideDebounceWindow(l, ts)
    /\ state.last_event_ts[ab[1]] # NegInf
    /\ ts - state.last_event_ts[ab[1]] <= links[l].traversal_latency_s
    /\ apply_decay(state, ts).scores[ab[2]] < BOOST_SCORE

\* the claim's outcome for B in the result res
Boosted(res, ts, B) ==
    /\ res.state.scores[B] = BOOST_SCORE
    /\ res.state.occupied[B]
    /\ res.state.last_event_ts[B] = ts
    /\ B \in SeqToSet(res.update.changed)
    /\ res.update.reason = ATTR_REASON_LINK

SensorActivated == {s \in DOMAIN spaces : decayed_at[s] # NegInf}

\* the claim's outcome for space s in the state st left by a pass at now
LinearDecay(st, s, now) ==
    LET elapsed == now - state.last_event_ts[s]
        T == spaces[s].timeout_s
    IN /\ st.scores[s] = Max(0, ONE - (elapsed * ONE) \div T)
       /\ st.occupied[s] = (5 * elapsed < 4 * T)
       /\ elapsed >= T => (st.scores[s] = 0 /\ ~st.occupied[s])

\* as stated, for every pass at now >= t
C8_DecayIsLinear ==
    \A s \in SensorActivated, now \in Timestamps :
       now >= state.last_event_ts[s] =>
          LinearDecay(apply_decay(state, now), s, now)

\* C8, amended: the same for a pass at a time now that is not earlier than
\* the time of any decay pass run since the activation.
C8_DecayIsLinearInOrder ==
    \A s \in SensorActivated, now \in Timestamps :
       (now >= state.last_event_ts[s] /\ now >= decayed_at[s]) =>
          LinearDecay(apply_decay(state, now), s, now)

\* the living room, activated by its sensor, has decayed to exactly the
\* threshold and is unoccupied, and the kitchen, activated too, is down to 0
C8_Witness ==
    /\ SensorActivated = {"living", "kitchen"}
    /\ state.scores["living"] = DEFAULT_DECAY_THRESHOLD
    /\ ~state.occupied["living"]
    /\ state.scores["kitchen"] = 0
    /\ ~state.occupied["kitchen"]
    /\ decayed_at["living"] = clock

\* ------------------------------------------------------------------------
\* C9: the decay pass never raises a score, never turns an unoccupied space
\* occupied and never changes last_event_ts, for any now, one earlier than a
\* space's last_event_ts included; and a call raises the score of no space
\* it does not report as changed.
\* ------------------------------------------------------------------------
DecayTimes == 0..(MaxTime + 1)

C9_DecayNeverRaises ==
    /\ \A now \in DecayTimes :
          \E st \in {apply_decay(state, now)} :
             /\ NothingRaised(state, st)
             /\ st.last_event_ts = state.last_event_ts
    /\ \A r \in Readings, ts \in Timestamps :
          \E res \in {EventResult(r, ts)} :
             \A s \in DOMAIN spaces \ SeqToSet(res.update.changed) :
                res.state.scores[s] <= state.scores[s]
    /\ \A s \in DOMAIN spaces :
          current_state(state, clock).scores[s] <= state.scores[s]

\* a space stamped later than time 0 has decayed part of the way: a pass for
\* time 0 finds a target above its score, a pass for the present one below
C9_Witness ==
    \E s \in DOMAIN spaces :
       /\ state.last_event_ts[s] >= 1
       /\ state.scores[s] < ONE
       /\ decay_target(spaces[s], state.last_event_ts[s], 0) > state.scores[s]
       /\ decay_target(spaces[s], state.last_event_ts[s], clock) < state.scores[s]

\* ------------------------------------------------------------------------
\* C10: current_state() called twice at one clock reading returns equal
\* snapshots, and the decay pass applied twice with one now leaves the state
\* that one application leaves.
\* ------------------------------------------------------------------------
C10_DecayIdempotent ==
    /\ current_state(current_state(state, clock), clock) = current_state(state, clock)
    /\ \A now \in DecayTimes :
          \E st \in {apply_decay(state, now)} : apply_decay(st, now) = st

\* a pass for the present lowers one space to a score between 0 and 1 and
\* empties another
C10_Witness ==
    \E st \in {current_state(state, clock)} :
       /\ st # state
       /\ \E s \in DOMAIN spaces :
             st.scores[s] < state.scores[s] /\ st.scores[s] > 0
       /\ \E s \in DOMAIN spaces :
             st.scores[s] < state.scores[s] /\ st.scores[s] = 0

\* ------------------------------------------------------------------------
\* C11: a space with include_in_total = false does not contribute to the
\* total: after every recalculation the total is what it would be were that
\* space unoccupied, while the space itself still reads occupied; two linked
\* occupied spaces with one of them excluded give a total of 1.
\* ------------------------------------------------------------------------
\* the readings of SpecManual for indexed entities; all are past the gate
IndexedReadings == {r \in ManualReadings : r.entity_id \in DOMAIN entity_index}

KnownForceCalls == {c \in ManualForceCalls : c[1] \in DOMAIN spaces}

KnownInclusionCalls == {c \in ManualInclusionCalls : c[1] \in DOMAIN spaces}

\* the total a recalculation gives for the flags sp, the occupancy of st
\* with space s unoccupied, and the total previous before it
TotalWithout(sp, st, previous, s) ==
    recalculate_totals(sp,
        [st EXCEPT !.occupied[s] = FALSE, !.total_estimated = previous]).total_estimated

\* the total of st, recalculated from previous, counts no excluded space
ExcludedIgnored(sp, st, previous) ==
    \A s \in DOMAIN sp :
       ~sp[s].include_in_total =>
          st.total_estimated = TotalWithout(sp, st, previous, s)

C11_ExcludedSpaceNotCounted ==
    /\ \A r \in IndexedReadings :
          ExcludedIgnored(spaces, EventResult(r, clock).state, state.total_estimated)
    /\ \A c \in KnownForceCalls :
          ExcludedIgnored(spaces, ForceResult(c).state, state.total_estimated)
    /\ \A c \in KnownInclusionCalls :
          \E res \in {set_space_inclusion(state, c[1], c[2])} :
             ExcludedIgnored(res.spaces, res.state, state.total_estimated)
    /\ (/\ state.occupied["living"] /\ state.occupied["kitchen"]
        /\ spaces["living"].include_in_total # spaces["kitchen"].include_in_total)
          => state.total_estimated = 1

\* the kitchen is excluded and alone occupied, at full score, and the total
\* is 0
C11_Witness ==
    /\ ~spaces["kitchen"].include_in_total
    /\ state.occupied["kitchen"]
    /\ state.scores["kitchen"] = ONE
    /\ ~state.occupied["living"]
    /\ state.total_estimated = 0

\* ------------------------------------------------------------------------
\* C12: the cluster count is the number of connected components of the graph
\* of the occupied included spaces and the links joining two of them
\* directly, in whatever order the spaces are visited.
\* ------------------------------------------------------------------------
\* the spaces counted: occupied and included
IncludedOccupied ==
    {s \in DOMAIN spaces : state.occupied[s] /\ spaces[s].include_in_total}

\* some installed link joins a and b
DirectlyLinked(a, b) ==
    \E l \in DOMAIN links : {links[l].from_space, links[l].to_space} = {a, b}

\* the spaces of nodes that links inside nodes connect to a space of S
RECURSIVE Connected(_, _)
Connected(S, nodes) ==
    LET T == S \cup {n \in nodes : \E m \in S : DirectlyLinked(m, n)}
    IN IF T = S THEN S ELSE Connected(T, nodes)

Components(nodes) == Cardinality({Connected({n}, nodes) : n \in nodes})

\* every order in which a set of the space ids can be iterated
Orders ==
    {o \in [1..Cardinality(DOMAIN spaces) -> DOMAIN spaces] :
        \A i, j \in DOMAIN o : o[i] = o[j] => i = j}

C12_ClustersAreComponents ==
    \E orders \in {Orders}, counted \in {IncludedOccupied} :
      \E components \in {Components(counted)} :
        /\ \A pop_order \in orders, order \in orders :
              count_clusters_in(pop_order, order, counted) = components
        /\ count_clusters(counted) = components

\* living, kitchen and office are counted and the hall is not: the hall's
\* links join living to kitchen, and the count is 2
C12_Witness ==
    /\ IncludedOccupied = {"living", "kitchen", "office"}
    /\ DirectlyLinked("hall", "living")
    /\ DirectlyLinked("hall", "kitchen")
    /\ DirectlyLinked("kitchen", "office")
    /\ count_clusters(IncludedOccupied) = 2

\* ------------------------------------------------------------------------
\* C13: set_model fails with a duplicate-identifier error whenever two
\* spaces or two links of its input share an id, and the engine keeps the
\* model it had: it never holds the model such an input would leave.
\* ------------------------------------------------------------------------
\* two items of the input carry the same id
SharesId(items) ==
    \E i, j \in DOMAIN items : i # j /\ items[i].id = items[j].id

DuplicateModels == {m \in Models : SharesId(m[1]) \/ SharesId(m[2])}

C13_DuplicateIdsRejected ==
    \A m \in DuplicateModels :
       \E e \in {set_model(m[1], m[2])} :
          /\ e.raised
          /\ ~(spaces = e.spaces /\ links = e.links)

\* ------------------------------------------------------------------------
\* C14: after set_model returns, whatever the engine held before, every
\* space of the new model is unoccupied with score 0, last_event_ts -inf and
\* space count 0, the total is 0, the locked links and the link debounce
\* timestamps are empty, and the remembered reason is decay.
\* ------------------------------------------------------------------------
Fresh ==
    /\ DOMAIN state.occupied = DOMAIN spaces
    /\ DOMAIN state.scores = DOMAIN spaces
    /\ DOMAIN state.last_event_ts = DOMAIN spaces
    /\ DOMAIN state.space_counts = DOMAIN spaces
    /\ \A s \in DOMAIN spaces :
          /\ ~state.occupied[s]
          /\ state.scores[s] = 0
          /\ state.last_event_ts[s] = NegInf
          /\ state.space_counts[s] = 0
    /\ state.total_estimated = 0
    /\ locked_links = {}
    /\ last_link_event = EmptyMap
    /\ last_reason = ATTR_REASON_DECAY

\* what set_model leaves for each of the models
Installed == {set_model(m[1], m[2]) : m \in Models}

SetModelStep == \E e \in Installed : Install(e)

C14_SetModelResets == [][SetModelStep => Fresh']_vars

\* what set_model is about to replace: a locked link, a debounce timestamp,
\* a remembered sensor reason, two occupied spaces and a total above 0
C14_Witness ==
    /\ locked_links # {}
    /\ last_link_event # EmptyMap
    /\ last_reason = ATTR_REASON_SENSOR
    /\ Cardinality({s \in DOMAIN spaces : state.occupied[s]}) >= 2
    /\ state.total_estimated > 0
    /\ ENABLED SetModelStep

\* ------------------------------------------------------------------------
\* C15: process_event for an entity the index does not hold returns an empty
\* changed list and the reason decay whatever reason is remembered, raises
\* no score, leaves the locked links, the debounce timestamps and the
\* remembered reason as they were, and has applied the decay pass at the
\* event's timestamp to every space.
\* ------------------------------------------------------------------------
UnknownEntities ==
    {"unknown", "binary_sensor.garage_motion"} \ DOMAIN entity_index

\* space s of st is space s of before after one decay pass at now
DecayedAt(before, st, s, now) ==
    \E target \in {decay_target(spaces[s], before.last_event_ts[s], now)} :
       IF target < before.scores[s]
       THEN /\ st.scores[s] = target
            /\ st.occupied[s] = (target > DEFAULT_DECAY_THRESHOLD)
            /\ st.space_counts[s] =
                  (IF st.occupied[s] THEN before.space_counts[s] ELSE 0)
       ELSE /\ st.scores[s] = before.scores[s]
            /\ st.occupied[s] = before.occupied[s]
            /\ st.space_counts[s] = before.space_counts[s]

C15_UnknownEntityOnlyDecays ==
    \A e \in UnknownEntities, v \in {Str("on"), Str("off")},
       d \in AnyDuration, ts \in 0..MaxTimeManual :
       \E res \in {EventResult(Reading(e, v, d), ts)} :
          /\ res.update.changed = <<>>
          /\ res.update.reason = ATTR_REASON_DECAY
          /\ NothingRaised(state, res.state)
          /\ res.locked_links = locked_links
          /\ res.last_link_event = last_link_event
          /\ res.last_reason = last_reason
          /\ \A s \in DOMAIN spaces : DecayedAt(state, res.state, s, ts)
          /\ res.state.last_event_ts = state.last_event_ts
          /\ res.state.total_estimated = state.total_estimated

\* the remembered reason is sensor, the link is locked, and the decay pass of
\* an event of an unknown entity now takes the kitchen below the threshold
C15_Witness ==
    /\ last_reason = ATTR_REASON_SENSOR
    /\ locked_links # {}
    /\ state.occupied["kitchen"]
    /\ \E res \in {EventResult(Reading("unknown", Str("on"), <<>>), clock)} :
          /\ ~res.state.occupied["kitchen"]
          /\ res.state.scores["kitchen"] < state.scores["kitchen"]
          /\ res.update.reason = ATTR_REASON_DECAY

\* ------------------------------------------------------------------------
\* C16: process_event for an indexed entity, past the duration gate, that
\* changes no space returns the reason of the most recent earlier
\* process_event that changed a space since the last reset, or decay when
\* there is none; when it changes a space it returns its own reason (sensor
\* for a space entity, link_event for a link entity), which becomes the
\* remembered reason.
\* ------------------------------------------------------------------------
\* the reason an event of entity e has of its own when it changes a space
OwnReason(e) ==
    IF entity_index[e].kind = "space" THEN ATTR_REASON_SENSOR ELSE ATTR_REASON_LINK

GatedReadings ==
    {r \in Readings : r.entity_id \in DOMAIN entity_index /\ ~too_short(r.duration)}

C16_UnchangedReportsRemembered ==
    /\ last_reason = reason_log
    /\ \A r \in GatedReadings, ts \in Timestamps :
          \E res \in {EventResult(r, ts)} :
             IF res.update.changed = <<>>
             THEN /\ res.update.reason = reason_log
                  /\ res.last_reason = reason_log
             ELSE /\ res.update.reason = OwnReason(r.entity_id)
                  /\ res.last_reason = OwnReason(r.entity_id)

\* the last event that changed a space was a link event; an inactive sensor
\* reading now changes nothing and reports link_event, and an active one
\* changes the living room and reports sensor
C16_Witness ==
    /\ reason_log = ATTR_REASON_LINK
    /\ \E res \in {EventResult(Reading("binary_sensor.living_motion", Str("off"),
                                       <<MIN_EVENT_DURATION>>), clock)} :
          /\ res.update.changed = <<>>
          /\ res.update.reason = ATTR_REASON_LINK
    /\ \E res \in {EventResult(Reading("binary_sensor.living_motion", Str("on"),
                                       <<>>), clock)} :
          /\ res.update.changed = <<"living">>
          /\ res.update.reason = ATTR_REASON_SENSOR
          /\ res.last_reason = ATTR_REASON_SENSOR

\* ------------------------------------------------------------------------
\* C17: process_event for a link-lock entity, past the duration gate,
\* returns an empty changed list whether it locks or unlocks the link.
\* As stated, its reason is link_event (C17_LockEventReportsLinkEvent); in
\* the code its reason is the remembered reason, which it leaves as it was
\* (C17_LockEventReportsRemembered).
\* ------------------------------------------------------------------------
LockEntities == {e \in DOMAIN entity_index : entity_index[e].kind = "link_lock"}

LockingValues == { Str("Locked"), Str("locked"), Bool(TRUE) }

UnlockingValues == { Str("unlocked"), Bool(FALSE), NoneValue }

\* the event leaves the link locked exactly when its value is a locking one
LockApplied(e, v, res) ==
    /\ v \in LockingValues => entity_index[e].target \in res.locked_links
    /\ v \in UnlockingValues => entity_index[e].target \notin res.locked_links
    /\ res.locked_links \ {entity_index[e].target}
          = locked_links \ {entity_index[e].target}

C17_LockEventReportsLinkEvent ==
    \A e \in LockEntities, v \in LockingValues \cup UnlockingValues,
       d \in LongEnough, ts \in Timestamps :
       \E res \in {EventResult(Reading(e, v, d), ts)} :
          /\ res.update.changed = <<>>
          /\ res.update.reason = ATTR_REASON_LINK

C17_LockEventReportsRemembered ==
    \A e \in LockEntities, v \in LockingValues \cup UnlockingValues,
       d \in LongEnough, ts \in Timestamps :
       \E res \in {EventResult(Reading(e, v, d), ts)} :
          /\ res.update.changed = <<>>
          /\ res.update.reason = last_reason
          /\ res.last_reason = last_reason
          /\ LockApplied(e, v, res)

\* sensor is remembered and the link is unlocked: the event that locks it
\* reports sensor and no changed space
C17_Witness ==
    /\ last_reason = ATTR_REASON_SENSOR
    /\ locked_links = {}
    /\ \E res \in {EventResult(Reading("lock.link", Str("Locked"), <<>>), clock)} :
          /\ res.locked_links = {"living_kitchen"}
          /\ res.update.reason = ATTR_REASON_SENSOR
          /\ res.update.changed = <<>>

\* ------------------------------------------------------------------------
\* C18: force_space_state on a known space s with (occupied, score) leaves
\* scores[s] = the score clamped to [0, 1] (1.0 or 0.0 from occupied when
\* the score is absent), occupied[s] = occupied or (clamped score > 0.2),
\* stamps last_event_ts[s] with the clock only when occupied is true,
\* recomputes the total with s taken into account, and returns changed = [s]
\* with reason manual_override; no other space's score, occupied flag or
\* last_event_ts changes.
\* ------------------------------------------------------------------------
Clamped(occupied, score) ==
    IF score = <<>> THEN (IF occupied THEN ONE ELSE 0)
    ELSE IF score[1] > ONE THEN ONE
    ELSE IF score[1] < 0 THEN 0
    ELSE score[1]

\* the total of the occupied included spaces of st, from the total before
TotalOf(sp, st, previous) ==
    LET counted == {t \in DOMAIN sp : st.occupied[t] /\ sp[t].include_in_total}
    IN IF counted = {} THEN 0
       ELSE Min(Max(Components(counted), 1), previous + 1)

C18_ForceSetsSpace ==
    \A c \in KnownForceCalls :
       \E res \in {ForceResult(c)}, s \in {c[1]} :
          /\ res.state.scores[s] = Clamped(c[2], c[3])
          /\ res.state.occupied[s] =
                (c[2] \/ Clamped(c[2], c[3]) > DEFAULT_DECAY_THRESHOLD)
          /\ res.state.last_event_ts[s] =
                (IF c[2] THEN clock ELSE state.last_event_ts[s])
          /\ res.state.total_estimated =
                TotalOf(spaces, res.state, state.total_estimated)
          /\ res.update.changed = <<s>>
          /\ res.update.reason = ATTR_REASON_FORCED
          /\ \A t \in DOMAIN spaces \ {s} :
                /\ res.state.scores[t] = state.scores[t]
                /\ res.state.occupied[t] = state.occupied[t]
                /\ res.state.last_event_ts[t] = state.last_event_ts[t]

\* the living room forced with occupied = false and score 0.5: occupied by
\* its score, never stamped, and counted in the total
C18_Witness ==
    /\ state.scores["living"] = ONE \div 2
    /\ state.occupied["living"]
    /\ state.last_event_ts["living"] = NegInf
    /\ spaces["living"].include_in_total
    /\ state.total_estimated = 1

\* ------------------------------------------------------------------------
\* C19: force_space_state and set_space_inclusion with a space id that is
\* not in the model raise nothing and leave the whole engine state as it
\* was; force_space_state returns changed = [] with the requested reason.
\* ------------------------------------------------------------------------
UnknownSpaces == {"attic", "garage"} \ DOMAIN spaces

RequestedReasons == {ATTR_REASON_FORCED, ATTR_REASON_SENSOR}

C19_UnknownSpaceIsNoOp ==
    \A s \in UnknownSpaces :
       /\ \A o \in BOOLEAN, score \in {<<>>, <<ONE>>, <<0>>},
             reason \in RequestedReasons :
             \E res \in {force_space_state(state, s, o, score, reason, clock)} :
                /\ res.state = state
                /\ res.update.changed = <<>>
                /\ res.update.reason = reason
       /\ \A include \in BOOLEAN :
             \E res \in {set_space_inclusion(state, s, include)} :
                /\ res.state = state
                /\ res.spaces = spaces

\* the kitchen has decayed to unoccupied and the total still counts it: a
\* recalculation would change the state, and the call on "attic" runs none
C19_Witness ==
    /\ ~state.occupied["kitchen"]
    /\ ~state.occupied["living"]
    /\ state.total_estimated = 1
    /\ locked_links # {}
    /\ ForceResult(<<"attic", TRUE, <<>>>>).state = state
    /\ set_space_inclusion(state, "attic", FALSE).state = state

\* ------------------------------------------------------------------------
\* C20: set_space_inclusion on a known space changes only that space's
\* include_in_total flag, the total and the space counts: no score, occupied
\* flag or last_event_ts changes (it runs no decay pass), and the total
\* rises by at most 1.
\* ------------------------------------------------------------------------
C20_InclusionChangesOnlyTotals ==
    \A s \in DOMAIN spaces, include \in BOOLEAN :
       \E res \in {set_space_inclusion(state, s, include)} :
          /\ res.spaces = [spaces EXCEPT ![s].include_in_total = include]
          /\ res.state.scores = state.scores
          /\ res.state.occupied = state.occupied
          /\ res.state.last_event_ts = state.last_event_ts
          /\ res.state.total_estimated <= state.total_estimated + 1
          /\ res.state.total_estimated =
                TotalOf(res.spaces, state, state.total_estimated)

\* all four spaces are occupied in one cluster and the hall is due to decay:
\* excluding the hall leaves three clusters, the total goes from 1 to 2 and
\* the hall keeps its score
C20_Witness ==
    /\ \A s \in DOMAIN spaces : state.occupied[s] /\ spaces[s].include_in_total
    /\ state.total_estimated = 1
    /\ apply_decay(state, clock).scores["hall"] < state.scores["hall"]
    /\ \E res \in {set_space_inclusion(state, "hall", FALSE)} :
          /\ res.state.total_estimated = 2
          /\ res.state.scores["hall"] = state.scores["hall"]

\* ------------------------------------------------------------------------
\* coordinator.PresenceGraphCoordinator.async_set_space_included
\* ------------------------------------------------------------------------
\* a stored space item: the fields of the dict the method reads and writes
space_item(space) == [id |-> space.id, include_in_total |-> space.include_in_total]

\* options.get("spaces", [])
stored_spaces(opts) == IF "spaces" \in DOMAIN opts THEN opts["spaces"] ELSE <<>>

\* for space in spaces_data: if space["id"] == space_id: ...; break
include_first(items, space_id, include) ==
    LET found == {i \in DOMAIN items : items[i].id = space_id}
    IN IF found = {} THEN items
       ELSE LET first == CHOOSE i \in found : \A j \in found : i <= j
            IN [items EXCEPT ![first].include_in_total = include]

\* mutant: every space id passes the guard
unknown_space_never(space_id) == FALSE

\* space_id not in self.engine.space_ids()
unknown_space(space_id) == space_id \notin DOMAIN spaces

\* the options, the engine's spaces and state after the call, and whether it
\* raised; now is the reading of time_func in engine.current_state()
async_set_space_included(opts, st, space_id, include, now) ==
    IF unknown_space(space_id)
    THEN [raised |-> TRUE, options |-> opts, spaces |-> spaces, state |-> st]
    ELSE LET e == set_space_inclusion(st, space_id, include)
         IN [raised |-> FALSE,
             options |-> Put(opts, "spaces",
                             include_first(stored_spaces(opts), space_id, include)),
             spaces |-> e.spaces,
             state |-> current_state(e.state, now)]

AsyncSetSpaceIncluded(space_id, include) ==
    \E r \in {async_set_space_included(options, state, space_id, include, clock)} :
       /\ options' = r.options
       /\ spaces' = r.spaces
       /\ state' = r.state
       /\ UNCHANGED <<links, entity_index, adjacency, locked_links,
                      last_link_event, last_reason, clock>>

\* The coordinator over the engine: the entry keeps its spaces in its options
\* or in its data, sensor and lock events arrive stamped with their
\* last_changed time, and the command surface includes and excludes known
\* and unknown spaces.
MaxTimeCoordinator == 2

\* the engine's time_func is the event loop's clock (seconds since the loop
\* started); an event is stamped new_state.last_changed.timestamp(), seconds
\* since the epoch: the epoch reading when the loop clock reads 0
EpochOffset == 10

\* new_state.last_changed.timestamp() of a state change at loop time now
last_changed(now) == now + EpochOffset

EntryOptions == { NoOptions, [spaces |-> [i \in DOMAIN SampleSpaces |-> space_item(SampleSpaces[i])]] }

IncludedCalls ==
    {<<s, include>> : s \in {"living", "kitchen", "attic"}, include \in BOOLEAN}

InitCoordinator ==
    \E m \in {set_model(SampleSpaces, SampleLinks)}, o \in EntryOptions :
       /\ ~m.raised
       /\ spaces = m.spaces
       /\ links = m.links
       /\ entity_index = m.entity_index
       /\ adjacency = m.adjacency
       /\ state = m.state
       /\ locked_links = m.locked_links
       /\ last_link_event = m.last_link_event
       /\ last_reason = m.last_reason
       /\ clock = 0
       /\ options = o
       /\ decayed_at = Untracked
       /\ reason_log = ATTR_REASON_DECAY
       /\ lock_log = NoLockLog
       /\ flow = NoFlow

NextCoordinator ==
    \/ \E r \in ManualReadings :
          /\ ProcessEvent(r.entity_id, r.new_state, last_changed(clock), r.duration)
          /\ UNCHANGED <<history, flow>>
    \/ \E c \in IncludedCalls :
          AsyncSetSpaceIncluded(c[1], c[2]) /\ UNCHANGED <<history, flow>>
    \/ AdvanceTo(MaxTimeCoordinator) /\ UNCHANGED <<history, flow>>

SpecCoordinator == InitCoordinator /\ [][NextCoordinator]_vars

\* ------------------------------------------------------------------------
\* C21: async_set_space_included with a space id that is not in the engine's
\* model raises the unknown-space error before anything is modified: the
\* stored options and the engine state are as before the call.
\* ------------------------------------------------------------------------
C21_UnknownSpaceRaises ==
    \A s \in UnknownSpaces, include \in BOOLEAN :
       \E res \in {async_set_space_included(options, state, s, include, clock)} :
          /\ res.raised
          /\ res.options = options
          /\ res.spaces = spaces
          /\ res.state = state

\* the entry stores its spaces in its options, the kitchen is occupied and
\* a link is locked: a call that got past the guard would change the state
C21_Witness ==
    /\ "spaces" \in DOMAIN options
    /\ locked_links # {}
    /\ state.occupied["kitchen"]
    /\ async_set_space_included(options, state, "kitchen", FALSE, clock).state # state
    /\ async_set_space_included(options, state, "attic", FALSE, clock).raised
    /\ ~async_set_space_included(options, state, "kitchen", FALSE, clock).raised

\* ------------------------------------------------------------------------
\* C22: after any sequence of set_model, process_event, force_space_state,
\* set_space_inclusion and current_state calls, with known or unknown ids,
\* the key sets of occupied, scores, last_event_ts and space_counts are each
\* the set of space ids of the current model.
\* ------------------------------------------------------------------------
KeysMatch(st) ==
    /\ DOMAIN st.occupied = DOMAIN spaces
    /\ DOMAIN st.scores = DOMAIN spaces
    /\ DOMAIN st.last_event_ts = DOMAIN spaces
    /\ DOMAIN st.space_counts = DOMAIN spaces

C22_StateKeysAreSpaceIds ==
    /\ KeysMatch(state)
    /\ KeysMatch(current_state(state, clock))

\* the model has two spaces, one of them occupied: "office" and "hall" are
\* unknown ids here, and the override of "office" adds no key
C22_Witness ==
    /\ DOMAIN spaces = {"living", "kitchen"}
    /\ state.occupied["living"]
    /\ ~spaces["kitchen"].include_in_total
    /\ KeysMatch(force_space_state(state, "office", TRUE, <<>>,
                                   ATTR_REASON_FORCED, clock).state)

\* ------------------------------------------------------------------------
\* C23: in every reachable state every space's score lies in [0, 1],
\* whatever scores are passed to force_space_state and whatever timestamps
\* are passed to process_event.
\* ------------------------------------------------------------------------
ScoresInRange(st) == \A s \in DOMAIN st.scores : 0 <= st.scores[s] /\ st.scores[s] <= ONE

\* timestamps before, at and after the clock
AnyTimestamps == 0..(MaxTimeManual + 1)

RangeReadings ==
    ManualReadings \cup {Reading("binary_sensor.link_motion", Str("on"), <<>>)}

C23_ScoresWithinUnitInterval ==
    /\ ScoresInRange(state)
    /\ ScoresInRange(current_state(state, clock))
    /\ \A r \in RangeReadings, ts \in AnyTimestamps :
          ScoresInRange(EventResult(r, ts).state)
    /\ \A c \in ManualForceCalls : ScoresInRange(ForceResult(c).state)

\* the kitchen is occupied with score 0 (forced with score -1.0) and the
\* living room, below 1 now, is about to be forced with score 2.0
C23_Witness ==
    /\ state.occupied["kitchen"]
    /\ state.scores["kitchen"] = 0
    /\ ForceResult(<<"living", TRUE, <<2 * ONE>>>>).state.scores["living"] = ONE
    /\ state.scores["living"] < ONE

\* ------------------------------------------------------------------------
\* C24: every entity id that is both in a space's motion or presence list
\* and in a link's motion, contact or lock list of the model is mapped to
\* the link by the entity index: an event on it is dispatched as a link
\* event and does not activate the space.
\* ------------------------------------------------------------------------
SpaceEntitiesOf(s) ==
    SeqToSet(spaces[s].motion_entities) \cup SeqToSet(spaces[s].presence_entities)

LinkEntitiesOf(l) ==
    SeqToSet(links[l].motion_entities) \cup SeqToSet(links[l].contact_entities)
       \cup SeqToSet(links[l].lock_entities)

SharedEntities ==
    {e \in UNION {SpaceEntitiesOf(s) : s \in DOMAIN spaces} :
        \E l \in DOMAIN links : e \in LinkEntitiesOf(l)}

C24_SharedEntityMapsToLink ==
    \A e \in SharedEntities :
       /\ e \in DOMAIN entity_index
       /\ entity_index[e].kind \in {"link_motion", "link_contact", "link_lock"}
       /\ e \in LinkEntitiesOf(entity_index[e].target)
       /\ \E res \in {EventResult(Reading(e, Str("on"), <<>>), clock)} :
             /\ res.update.space = None
             /\ res.update.reason # ATTR_REASON_SENSOR

\* ------------------------------------------------------------------------
\* C25: in every state process_event, force_space_state and current_state
\* return, space_counts[s] is 1 if occupied[s] is true and 0 otherwise, for
\* every space s whatever its include_in_total flag.
\* ------------------------------------------------------------------------
CountsFollowOccupied(st) ==
    \A s \in DOMAIN spaces : st.space_counts[s] = (IF st.occupied[s] THEN 1 ELSE 0)

C25_SpaceCountsFollowOccupied ==
    /\ CountsFollowOccupied(state)
    /\ CountsFollowOccupied(current_state(state, clock))
    /\ \A r \in RangeReadings, d \in {<<>>, <<0>>}, ts \in AnyTimestamps :
          CountsFollowOccupied(EventResult(Reading(r.entity_id, r.new_state, d), ts).state)
    /\ \A c \in ManualForceCalls : CountsFollowOccupied(ForceResult(c).state)

\* the kitchen is excluded and occupied: its count is 1 and the total is 0;
\* the living room has decayed to unoccupied and its count is 0
C25_Witness ==
    /\ ~spaces["kitchen"].include_in_total
    /\ state.occupied["kitchen"]
    /\ state.space_counts["kitchen"] = 1
    /\ state.total_estimated = 0
    /\ state.last_event_ts["living"] # NegInf
    /\ ~state.occupied["living"]
    /\ state.space_counts["living"] = 0

\* ------------------------------------------------------------------------
\* C26: each recalculation of the totals (process_event past the duration
\* gate, force_space_state and set_space_inclusion on a known id) sets the
\* total to 0 when no included space is occupied and otherwise to
\* min(max(clusters, 1), previous total + 1), clusters being the number of
\* clusters of occupied included spaces; so 1 <= total <= clusters whenever
\* some included space is occupied.
\* ------------------------------------------------------------------------
\* the total of st is the claimed one for the spaces sp and the total before
TotalAsClaimed(sp, st, previous) ==
    \E counted \in {{t \in DOMAIN sp : st.occupied[t] /\ sp[t].include_in_total}} :
       /\ st.total_estimated = TotalOf(sp, st, previous)
       /\ counted = {} => st.total_estimated = 0
       /\ counted # {} => /\ 1 <= st.total_estimated
                          /\ st.total_estimated <= Components(counted)

C26_TotalIsSmoothedClusterCount ==
    /\ \A r \in ModelsReadings, d \in LongEnough :
          r.entity_id \in DOMAIN entity_index =>
             TotalAsClaimed(spaces,
                            EventResult(Reading(r.entity_id, r.new_state, d), clock).state,
                            state.total_estimated)
    /\ \A c \in ModelsForceCalls :
          c[1] \in DOMAIN spaces =>
             TotalAsClaimed(spaces, ForceResult(c).state, state.total_estimated)
    /\ \A c \in ModelsInclusionCalls :
          c[1] \in DOMAIN spaces =>
             \E res \in {set_space_inclusion(state, c[1], c[2])} :
                TotalAsClaimed(res.spaces, res.state, state.total_estimated)

\* three occupied rooms in three clusters with a total of 2, held back by
\* the limit of one per recalculation: the next recalculation gives 3
C26_Witness ==
    /\ IncludedOccupied = {"living", "kitchen", "office"}
    /\ Components(IncludedOccupied) = 3
    /\ state.total_estimated = 2
    /\ ForceResult(<<"living", TRUE, <<>>>>).state.total_estimated = 3
    /\ ForceResult(<<"hall", TRUE, <<>>>>).state.total_estimated = 1

\* ------------------------------------------------------------------------
\* C27: a link-motion or link-contact event on an unlocked link is ignored
\* (changed = [], no score raised) when the link's recorded last-event time
\* is less than 2.0 s before the event's timestamp; an event 2.0 s or more
\* after the recorded time is accepted and its timestamp becomes the link's
\* recorded last-event time, even when it boosts no space.
\* As stated this covers an event of any duration (C27_DebounceWindow); in
\* the code an event shorter than 0.5 s is dropped before the link is looked
\* at, and the statement holds for the others (C27_DebounceWindowPastGate).
\* ------------------------------------------------------------------------
EventTimes == 0..(MaxTimeReasons + 1)

\* the claimed outcome of an event of entity e with value v, duration d and
\* timestamp ts on a link with a recorded last-event time
DebounceOutcome(e, v, d, ts) ==
    \E res \in {EventResult(Reading(e, v, d), ts)}, l \in {entity_index[e].target} :
       IF ts - last_link_event[l] < LINK_EVENT_DEBOUNCE
       THEN /\ res.update.changed = <<>>
            /\ NothingRaised(state, res.state)
            /\ res.last_link_event = last_link_event
       ELSE /\ res.last_link_event[l] = ts

C27_DebounceWindow ==
    \A e \in LinkActivityEntities :
       (entity_index[e].target \notin locked_links
          /\ entity_index[e].target \in DOMAIN last_link_event) =>
          \A v \in LinkEventValues, d \in AnyDuration, ts \in EventTimes :
             DebounceOutcome(e, v, d, ts)

C27_DebounceWindowPastGate ==
    \A e \in LinkActivityEntities :
       (entity_index[e].target \notin locked_links
          /\ entity_index[e].target \in DOMAIN last_link_event) =>
          \A v \in LinkEventValues, d \in LongEnough, ts \in EventTimes :
             DebounceOutcome(e, v, d, ts)

\* the link's last event is recorded at 0, the clock reads 2 and no space
\* was ever activated: a link event now is accepted, recorded at 2, and
\* boosts nothing; one stamped 1 is ignored
C27_Witness ==
    /\ locked_links = {}
    /\ "living_kitchen" \in DOMAIN last_link_event
    /\ last_link_event["living_kitchen"] = 0
    /\ clock = 2
    /\ \A s \in DOMAIN spaces : state.last_event_ts[s] = NegInf
    /\ \E res \in {EventResult(Reading("binary_sensor.link_motion", Str("on"), <<>>), 2)} :
          /\ res.update.changed = <<>>
          /\ res.last_link_event["living_kitchen"] = 2
    /\ EventResult(Reading("binary_sensor.link_motion", Str("on"), <<>>), 1).last_link_event
          = last_link_event

\* ------------------------------------------------------------------------
\* C28: a link-motion or link-contact event that arrives on a locked link
\* outside the debounce window still records its timestamp as the link's
\* last-event time, so that a further event on the same link less than
\* 2.0 s later is debounced even if the link was unlocked in between.
\* The code tests the lock before the debounce and returns without
\* recording anything.
\* ------------------------------------------------------------------------
C28_LockedLinkEventRecorded ==
    \A e \in LinkActivityEntities :
       entity_index[e].target \in locked_links =>
          \A v \in LinkEventValues, d \in LongEnough, ts \in EventTimes :
             OutsideDebounceWindow(entity_index[e].target, ts) =>
                \E res \in {EventResult(Reading(e, v, d), ts)},
                   l \in {entity_index[e].target} :
                   /\ l \in DOMAIN res.last_link_event
                   /\ res.last_link_event[l] = ts

\* ------------------------------------------------------------------------
\* SpecLocks: two lockable links between the same rooms, lock events of
\* every kind of value and duration, and the latest gated lock value per
\* link logged in lock_log
\* ------------------------------------------------------------------------
MaxTimeLocks == 1

LockLinks ==
    << Link("living_kitchen", "living", "kitchen",
            <<"binary_sensor.link_motion">>, <<"binary_sensor.link_contact">>,
            <<"lock.link">>, 3),
       Link("side_door", "living", "kitchen",
            <<"binary_sensor.side_motion">>, <<>>, <<"lock.side">>, 3) >>

LockReadings ==
    { Reading("lock.link", Str("Locked"), <<>>),
      Reading("lock.link", Str("ON"), <<>>),
      Reading("lock.link", Str("true"), <<MIN_EVENT_DURATION>>),
      Reading("lock.link", Bool(TRUE), <<>>),
      Reading("lock.link", Str("unlocked"), <<>>),
      Reading("lock.link", Str("Open"), <<>>),
      Reading("lock.link", Bool(FALSE), <<>>),
      Reading("lock.link", Num(1), <<>>),
      Reading("lock.link", NoneValue, <<>>),
      Reading("lock.link", Str("locked"), <<MIN_EVENT_DURATION - 1>>),
      Reading("lock.link", Str("unlocked"), <<0>>),
      Reading("lock.side", Str("locked"), <<>>),
      Reading("lock.side", Str("off"), <<MIN_EVENT_DURATION>>),
      Reading("binary_sensor.link_motion", Str("on"), <<>>),
      Reading("binary_sensor.side_motion", Str("on"), <<>>),
      Reading("binary_sensor.living_motion", Str("on"), <<>>),
      Reading("lock.door", Str("locked"), <<>>) }

\* the log after reading r was processed: a lock event for a link that
\* passed the duration gate replaces the link's entry
LockLogged(log, r) ==
    IF /\ r.entity_id \in DOMAIN entity_index
       /\ entity_index[r.entity_id].kind = "link_lock"
       /\ (r.duration = <<>> \/ r.duration[1] >= MIN_EVENT_DURATION)
    THEN Put(log, entity_index[r.entity_id].target, r.new_state)
    ELSE log

InitLocks ==
    \E m \in {set_model(SampleSpaces, LockLinks)} :
       /\ ~m.raised
       /\ spaces = m.spaces
       /\ links = m.links
       /\ entity_index = m.entity_index
       /\ adjacency = m.adjacency
       /\ state = m.state
       /\ locked_links = m.locked_links
       /\ last_link_event = m.last_link_event
       /\ last_reason = m.last_reason
       /\ clock = 0
       /\ options = NoOptions
       /\ decayed_at = Untracked
       /\ reason_log = ATTR_REASON_DECAY
       /\ lock_log = NoLockLog
       /\ flow = NoFlow

NextLocks ==
    \/ /\ Install(set_model(SampleSpaces, LockLinks))
       /\ lock_log' = NoLockLog
       /\ UNCHANGED <<decayed_at, reason_log, flow>>
    \/ \E r \in LockReadings :
          /\ ProcessEvent(r.entity_id, r.new_state, clock, r.duration)
          /\ lock_log' = LockLogged(lock_log, r)
          /\ UNCHANGED <<decayed_at, reason_log, flow>>
    \/ \E c \in ReasonsForceCalls :
          ForceSpaceState(c[1], c[2], c[3]) /\ UNCHANGED <<history, flow>>
    \/ \E c \in InclusionCalls :
          SetSpaceInclusion(c[1], c[2]) /\ UNCHANGED <<history, flow>>
    \/ CurrentState /\ UNCHANGED <<history, flow>>
    \/ AdvanceTo(MaxTimeLocks) /\ UNCHANGED <<history, flow>>

SpecLocks == InitLocks /\ [][NextLocks]_vars

\* ------------------------------------------------------------------------
\* C29: a link is in locked_links exactly when the most recent lock-entity
\* event for that link since the last set_model, among those whose duration
\* is absent or at least 0.5 s, carried a locked value (boolean true, or
\* on / locked / true in any case); any other value in such an event removes
\* the link, and no operation other than set_model changes locked_links.
\* ------------------------------------------------------------------------
CarriesLockedValue(v) ==
    \/ v = Bool(TRUE)
    \/ v.kind = "str" /\ lower(v.s) \in {"on", "locked", "true"}

C29_LockedLinksFollowLastLockEvent ==
    /\ locked_links \subseteq DOMAIN links
    /\ \A l \in DOMAIN links :
          l \in locked_links
             <=> (l \in DOMAIN lock_log /\ CarriesLockedValue(lock_log[l]))

\* the side door is locked, the main link was unlocked by its latest lock
\* event, a link event was accepted since and the living room is occupied
C29_Witness ==
    /\ locked_links = {"side_door"}
    /\ "living_kitchen" \in DOMAIN lock_log
    /\ lock_log["living_kitchen"] = Str("unlocked")
    /\ lock_log["side_door"] = Str("locked")
    /\ "living_kitchen" \in DOMAIN last_link_event
    /\ state.occupied["living"]
    /\ clock = 1

\* ------------------------------------------------------------------------
\* C30: a link event propagates from a source endpoint only if the event's
\* timestamp minus the source's last_event_ts is at most the link's
\* configured traversal_latency_s, for every configured value including 0:
\* with traversal_latency_s = 0 a link event later than the source's
\* activation boosts nothing.
\* The code replaces a configured 0 by DEFAULT_TRAVERSAL_LATENCY.
\* ------------------------------------------------------------------------
\* every endpoint of the link was last stamped before ts, if ever
LaterThanActivations(link, ts) ==
    \A A \in {link.from_space, link.to_space} :
       A \in DOMAIN state.last_event_ts =>
          (state.last_event_ts[A] = NegInf \/ ts > state.last_event_ts[A])

C30_ZeroLatencyBoostsNothingLater ==
    \A e \in LinkActivityEntities :
       (links[entity_index[e].target].traversal_latency_s = 0
          /\ LaterThanActivations(links[entity_index[e].target], clock)) =>
          \A v \in LinkEventValues, d \in LongEnough :
             \E res \in {EventResult(Reading(e, v, d), clock)} :
                /\ res.update.changed = <<>>
                /\ NothingRaised(state, res.state)

\* ------------------------------------------------------------------------
\* C31: link propagation treats a link as undirected: with from_space and
\* to_space of the link swapped, an event leaves the same scores, occupied
\* flags, last_event_ts values and changed set; a space is boosted only on
\* the strength of the other endpoint's activation as it stood before the
\* event.
\* The code's second direction reads the stamp its first direction wrote.
\* ------------------------------------------------------------------------
\* the candidates loop of _handle_link_activity for the link with its
\* endpoints swapped, on the decayed state st
SwappedPropagation(st, link, ts) ==
    LET a0 == [state |-> st, changed |-> <<>>]
        a1 == propagate(a0, link.to_space, link.from_space, ts, latency_of(link))
    IN propagate(a1, link.from_space, link.to_space, ts, latency_of(link))

C31_LinkIsUndirected ==
    \A l \in DOMAIN links :
       \E decayed \in {apply_decay(state, clock)} :
          \E res \in {handle_link_activity(decayed, {}, EmptyMap, l, clock)},
             swapped \in {SwappedPropagation(decayed, links[l], clock)} :
             /\ res.state.scores = swapped.state.scores
             /\ res.state.occupied = swapped.state.occupied
             /\ res.state.last_event_ts = swapped.state.last_event_ts
             /\ SeqToSet(res.changed) = SeqToSet(swapped.changed)

\* ------------------------------------------------------------------------
\* C32: a propagation target whose score is at or above 0.6 when the link
\* event is processed (after the decay pass at the event's timestamp) is not
\* boosted: its score, last_event_ts and occupied flag are as the decay pass
\* left them and it is not listed in changed.
\* ------------------------------------------------------------------------
Endpoints(link) == {link.from_space, link.to_space} \cap DOMAIN spaces

NowOrNext == clock..(clock + 1)

C32_TargetAtBoostScoreUntouched ==
    \A e \in LinkActivityEntities, v \in LinkEventValues, d \in LongEnough,
       ts \in NowOrNext :
       \E res \in {EventResult(Reading(e, v, d), ts)},
          decayed \in {apply_decay(state, ts)} :
          \A B \in Endpoints(links[entity_index[e].target]) :
             decayed.scores[B] >= BOOST_SCORE =>
                /\ res.state.scores[B] = decayed.scores[B]
                /\ res.state.last_event_ts[B] = state.last_event_ts[B]
                /\ res.state.occupied[B] = decayed.occupied[B]
                /\ B \notin SeqToSet(res.update.changed)

\* the living room has decayed to exactly 0.6 since an earlier stamp, the
\* kitchen was activated within the latency, and a link event now is
\* accepted (its timestamp is recorded) without touching the living room
C32_Witness ==
    /\ locked_links = {}
    /\ OutsideDebounceWindow("living_kitchen", clock)
    /\ state.last_event_ts["kitchen"] # NegInf
    /\ clock - state.last_event_ts["kitchen"] <= latency_of(links["living_kitchen"])
    /\ state.last_event_ts["living"] # NegInf
    /\ state.last_event_ts["living"] < clock
    /\ apply_decay(state, clock).scores["living"] = BOOST_SCORE
    /\ \E res \in {EventResult(Reading("binary_sensor.link_motion", Str("on"), <<>>), clock)} :
          /\ res.last_link_event["living_kitchen"] = clock
          /\ res.state.last_event_ts["living"] = state.last_event_ts["living"]
          /\ "living" \notin SeqToSet(res.update.changed)

\* ------------------------------------------------------------------------
\* C33: the decay pass at the event's timestamp runs before the event is
\* interpreted, so a link event's boost decision uses the target's score as
\* decayed to that timestamp: a target activated earlier whose stored score
\* is still at or above 0.6 but whose decayed value at the event timestamp
\* is below 0.6 is boosted to 0.6 and reported as changed (the event past
\* the gates and the other endpoint activated within the latency).
\* ------------------------------------------------------------------------
\* an event of entity e at ts passes the lock and the debounce, and the
\* endpoint A of its link was activated within the configured latency
PropagatesFrom(e, ts, A) ==
    LET l == entity_index[e].target IN
    /\ l \notin locked_links
    /\ OutsideDebounceWindow(l, ts)
    /\ state.last_event_ts[A] # NegInf
    /\ ts - state.last_event_ts[A] <= links[l].traversal_latency_s

QuietReadings ==
    TotalsReadings \cup { Reading("binary_sensor.hall_motion", Str("off"), <<>>) }

C34_QuietEventKeepsTotal ==
    \A r \in QuietReadings :
       \E res \in {EventResult(r, clock)} :
          (res.state.scores = state.scores /\ res.state.occupied = state.occupied)
             => res.state.total_estimated = state.total_estimated

\* ------------------------------------------------------------------------
\* C35: the activeness predicate is applied to link-motion and link-contact
\* events: such an event whose new value is not active ("off", "closed",
\* false, 0) attempts no propagation, raises no score and does not consume
\* the link's debounce window.
\* The code never looks at the value of a link-motion or link-contact event.
\* ------------------------------------------------------------------------
C35_InactiveLinkEventIgnored ==
    \A e \in LinkActivityEntities, v \in InactiveValues, d \in LongEnough :
       \E res \in {EventResult(Reading(e, v, d), clock)} :
          /\ res.update.changed = <<>>
          /\ NothingRaised(state, res.state)
          /\ res.last_link_event = last_link_event

\* ------------------------------------------------------------------------
\* C36: every occupied space eventually becomes unoccupied: after a decay
\* pass (current_state or process_event) with now >= last_event_ts[s] +
\* timeout_s, with no activation, boost or force of s in between, the space
\* has occupied = false, whatever earlier calls produced its state.
\* A space forced occupied with score 0 is never lowered by a decay pass.
\* ------------------------------------------------------------------------
\* the time the stamp of s expires, and a second later
ExpiryTimes(s) ==
    { state.last_event_ts[s] + spaces[s].timeout_s,
      state.last_event_ts[s] + spaces[s].timeout_s + 1 }

C36_OccupiedSpaceExpires ==
    \A s \in DOMAIN spaces :
       state.last_event_ts[s] # NegInf =>
          \A now \in ExpiryTimes(s) :
             /\ ~current_state(state, now).occupied[s]
             /\ ~EventResult(Reading("unknown", Str("on"), <<>>), now).state.occupied[s]

\* ------------------------------------------------------------------------
\* C37: a link event ignored as debounced does not move the link's recorded
\* last-event time, so debounced events never extend the debounce window:
\* of three events on one unlocked link at t, inside the window after t and
\* at t + 2.0, the first and the third are accepted and the second ignored.
\* Timestamps are whole seconds here: the second event is at t + 1.
\* ------------------------------------------------------------------------
\* process_event for the reading r stamped ts on the engine as the result
\* prev of an earlier process_event left it
EventAfter(prev, r, ts) ==
    process_event(prev.state, prev.locked_links, prev.last_link_event,
                  prev.last_reason,
                  GraphEvent(r.entity_id, r.new_state, ts, r.duration))

\* the outcome of three events of entity e on link l at t, t + 1 and t + 2
ThreeEvents(e, l, v, d, t) ==
    \E first \in {EventResult(Reading(e, v, d), t)} :
       \E second \in {EventAfter(first, Reading(e, v, d), t + 1)} :
          \E third \in {EventAfter(second, Reading(e, v, d), t + 2)} :
             /\ first.last_link_event[l] = t
             /\ second.update.changed = <<>>
             /\ NothingRaised(first.state, second.state)
             /\ second.last_link_event = first.last_link_event
             /\ third.last_link_event[l] = t + 2

C37_DebouncedEventKeepsWindow ==
    \A e \in LinkActivityEntities :
       (entity_index[e].target \notin locked_links
          /\ OutsideDebounceWindow(entity_index[e].target, clock)) =>
          \A v \in LinkEventValues, d \in LongEnough :
             ThreeEvents(e, entity_index[e].target, v, d, clock)

\* the living room was activated now and the link never fired: of three
\* link events now, in one and in two seconds, the first boosts the kitchen,
\* the second is ignored and the third is recorded
C37_Witness ==
    /\ locked_links = {}
    /\ "living_kitchen" \notin DOMAIN last_link_event
    /\ state.last_event_ts["living"] = clock
    /\ state.scores["kitchen"] = 0
    /\ \E first \in {EventResult(Reading("binary_sensor.link_motion", Str("on"), <<>>),
                                 clock)} :
          /\ first.update.changed = <<"kitchen">>
          /\ \E second \in {EventAfter(first,
                                Reading("binary_sensor.link_motion", Str("on"), <<>>),
                                clock + 1)} :
                /\ second.update.changed = <<>>
                /\ second.last_link_event["living_kitchen"] = clock
                /\ EventAfter(second,
                              Reading("binary_sensor.link_motion", Str("on"), <<>>),
                              clock + 2).last_link_event["living_kitchen"] = clock + 2

\* ------------------------------------------------------------------------
\* The coordinator with time passing: the clock is the one thing the
\* integration can count on. The coordinator is built with
\* update_interval = None and registers no timer, so no step of its own is
\* scheduled; coordinator.data is the engine's PresenceState object, handed
\* over by async_set_updated_data after each handler.
\* ------------------------------------------------------------------------
SpecCoordinatorFair ==
    /\ InitCoordinator
    /\ [][NextCoordinator]_vars
    /\ WF_vars(AdvanceTo(MaxTimeCoordinator) /\ UNCHANGED <<history, flow>>)

\* the published state shows s occupied although timeout_s has elapsed
\* since the event that stamped it
StaleOccupied(s) ==
    /\ state.occupied[s]
    /\ state.last_event_ts[s] # NegInf
    /\ last_changed(clock) >= state.last_event_ts[s] + spaces[s].timeout_s

\* ------------------------------------------------------------------------
\* C38: under the coordinator a space's published occupancy does not stay
\* on forever: if a space is activated and afterwards no tracked entity
\* changes state, coordinator.data eventually shows the space unoccupied
\* once timeout_s has elapsed.
\* Only the decay pass of a later event ends a stale occupancy, and nothing
\* runs a decay pass when no event arrives.
\* ------------------------------------------------------------------------
C38_PublishedOccupancyExpires ==
    StaleOccupied("kitchen") ~> ~StaleOccupied("kitchen")

\* ------------------------------------------------------------------------
\* The integration as wired by async_setup_entry: the engine reads the event
\* loop's clock, the state-change handler stamps events with last_changed,
\* and the force_space_state service goes through the coordinator to the
\* engine, which stamps the forced space with its own clock.
\* ------------------------------------------------------------------------

\* <<space_id, occupied, score>> of the force_space_state service calls
WiredForceCalls ==
    { <<"living", TRUE, <<ONE>>>>,
      <<"kitchen", TRUE, <<ONE>>>>,
      <<"kitchen", FALSE, <<>>>> }

NextWired ==
    \/ \E r \in ManualReadings :
          /\ ProcessEvent(r.entity_id, r.new_state, last_changed(clock), r.duration)
          /\ UNCHANGED <<history, flow>>
    \/ \E c \in IncludedCalls :
          AsyncSetSpaceIncluded(c[1], c[2]) /\ UNCHANGED <<history, flow>>
    \/ \E c \in WiredForceCalls :
          ForceSpaceState(c[1], c[2], c[3]) /\ UNCHANGED <<history, flow>>
    \/ AdvanceTo(MaxTimeCoordinator) /\ UNCHANGED <<history, flow>>

SpecWired == InitCoordinator /\ [][NextWired]_vars

\* the readings of the entities that do not belong to space s
UnrelatedReadings(s) ==
    { r \in ManualReadings :
        /\ r.entity_id \in DOMAIN entity_index
        /\ entity_index[r.entity_id].kind # "space"
           \/ entity_index[r.entity_id].target # s }

\* the whole seconds that are less than 0.8 * timeout_s of space s
ShortDelays(s) ==
    { d \in 0..MaxTimeCoordinator : 5 * d < 4 * timeout_of(spaces[s]) }

\* ------------------------------------------------------------------------
\* C39: the engine's result does not depend on the origin of the injected
\* clock relative to the event timestamps: with time_func the event-loop
\* clock and event timestamps epoch seconds, a space forced occupied with
\* score 1.0 is still occupied after a process_event for an unrelated
\* entity that arrives less than 0.8 * timeout_s real seconds later.
\* ------------------------------------------------------------------------
C39_ForcedSpaceSurvivesUnrelatedEvent ==
    \A s \in DOMAIN spaces :
       \E forced \in {force_space_state(state, s, TRUE, <<ONE>>,
                                        ATTR_REASON_FORCED, clock)} :
          \A d \in ShortDelays(s), r \in UnrelatedReadings(s) :
             process_event(forced.state, locked_links, last_link_event, last_reason,
                           GraphEvent(r.entity_id, r.new_state,
                                      last_changed(clock + d), r.duration))
                .state.occupied[s]

\* ------------------------------------------------------------------------
\* The configuration flow and the options flow (config_flow.py). A text is
\* a tuple of one-character strings; an optional value is <<>> or <<v>>.
\* ------------------------------------------------------------------------
MaxNameLen == 2

\* the characters of the names a user types
FlowChars == {"L", "l", " "}

\* str.lower() and str.isalnum() on one character
char_lower(ch) == IF ch = "L" THEN "l" ELSE ch

char_isalnum(ch) == ch \in {"L", "l", "k"}

\* "".join(ch if ch.isalnum() else "_" for ch in value.lower())
slug_chars(value) ==
    [i \in DOMAIN value |->
        IF char_isalnum(char_lower(value[i])) THEN char_lower(value[i]) ELSE "_"]

\* normalized.replace("__", "_"): the pairs are replaced from the left
RECURSIVE replace_pairs(_)
replace_pairs(text) ==
    IF Len(text) < 2 THEN text
    ELSE IF text[1] = "_" /\ text[2] = "_"
    THEN <<"_">> \o replace_pairs(SubSeq(text, 3, Len(text)))
    ELSE <<text[1]>> \o replace_pairs(Tail(text))

\* while "__" in normalized: normalized = normalized.replace("__", "_")
RECURSIVE collapse_underscores(_)
collapse_underscores(text) ==
    IF \E i \in 1..(Len(text) - 1) : text[i] = "_" /\ text[i + 1] = "_"
    THEN collapse_underscores(replace_pairs(text))
    ELSE text

\* normalized.strip("_")
RECURSIVE strip_underscores(_)
strip_underscores(text) ==
    IF text = <<>> THEN text
    ELSE IF Head(text) = "_" THEN strip_underscores(Tail(text))
    ELSE IF text[Len(text)] = "_" THEN strip_underscores(SubSeq(text, 1, Len(text) - 1))
    ELSE text

\* utils.slugify
slugify(value) == strip_underscores(collapse_underscores(slug_chars(value)))

\* the submitted text of a form field, by what json.loads makes of it: an
\* empty text, a text that is not JSON (names separated by commas and line
\* breaks, each read as {"name": name}), a JSON array of objects, and a JSON
\* value that is not an array
Blank == [kind |-> "blank", items |-> <<>>]

Lines(names) ==
    [kind |-> "lines", items |-> [i \in DOMAIN names |-> [name |-> names[i], id |-> <<>>]]]

JsonList(items) == [kind |-> "json_list", items |-> items]

JsonOther == [kind |-> "json_other", items |-> <<>>]

\* what a parser returns or raises: raised is "", "ValueError" or "Invalid"
Returned(value) == [raised |-> "", value |-> value]

Raised(exception) == [raised |-> exception, value |-> <<>>]

\* SPACE_FIELD(raw) with the id: the defaults of the schema filled in
SpaceDict(name, id) ==
    [name |-> name, id |-> id, include_in_total |-> TRUE, timeout_s |-> 120,
     motion_entities |-> <<>>, presence_entities |-> <<>>]

\* validated.get("id") or slugify(validated["name"])
space_id_of(raw) ==
    IF raw.id # <<>> /\ raw.id[1] # <<>> THEN raw.id[1] ELSE slugify(raw.name)

ids_of(items) == [i \in DOMAIN items |-> items[i].id]

\* config_flow._parse_spaces, _coerce_space_names included
parse_spaces(payload) ==
    IF payload.kind = "blank" THEN Returned(<<>>)
    ELSE IF payload.kind = "json_other" THEN Raised("ValueError")
    ELSE IF payload.kind = "lines" /\ payload.items = <<>> THEN Raised("ValueError")
    ELSE LET parsed == [i \in DOMAIN payload.items |->
                           SpaceDict(payload.items[i].name, space_id_of(payload.items[i]))]
         IN IF ensure_unique_ids(ids_of(parsed)) THEN Returned(parsed)
            ELSE Raised("Invalid")

\* LINK_FIELD(raw) with the id: the defaults of the schema filled in
LinkDict(raw, id) ==
    [name |-> raw.name, id |-> id, from_space |-> raw.from_space,
     to_space |-> raw.to_space, motion_entities |-> <<>>, contact_entities |-> <<>>,
     lock_entities |-> <<>>, traversal_latency_s |-> 8]

\* validated.get("id") or slugify(f"{from_space}_{to_space}_{name}")
link_id_of(raw) ==
    IF raw.id # <<>> /\ raw.id[1] # <<>> THEN raw.id[1]
    ELSE slugify(raw.from_space \o <<"_">> \o raw.to_space \o <<"_">> \o raw.name)

\* config_flow._parse_links: json.loads raises a ValueError on a text that
\* is not JSON
parse_links(payload) ==
    IF payload.kind # "json_list" THEN Raised("ValueError")
    ELSE LET parsed == [i \in DOMAIN payload.items |->
                           LinkDict(payload.items[i], link_id_of(payload.items[i]))]
         IN IF ensure_unique_ids(ids_of(parsed)) THEN Returned(parsed)
            ELSE Raised("Invalid")

\* config_flow._validate_spaces
validate_spaces(parsed) ==
    IF Cardinality({parsed[i].id : i \in DOMAIN parsed}) # Len(parsed)
    THEN <<"duplicate_id">> ELSE <<>>

\* config_flow._validate_links
validate_links(parsed, parsed_links) ==
    LET space_ids == {parsed[i].id : i \in DOMAIN parsed}
    IN IF \E i \in DOMAIN parsed_links :
             \/ parsed_links[i].from_space \notin space_ids
             \/ parsed_links[i].to_space \notin space_ids
       THEN <<"missing_space">> ELSE <<>>

\* The flow object (_spaces, _links) with the result of its latest step:
\* type and step_id of the result, errors["base"] ("" when there is none),
\* the data of the created entry, and whether the step raised instead.
NewFlow ==
    [type |-> "form", step_id |-> "user", errors |-> "", raised |-> FALSE,
     spaces |-> <<>>, links |-> <<>>, entry |-> <<>>]

\* self.async_show_form(step_id=..., errors=...)
show_form(fl, step_id, error) ==
    [fl EXCEPT !.type = "form", !.step_id = step_id, !.errors = error, !.raised = FALSE]

\* an exception leaves the step: the flow object is as before the call
step_raised(fl) == [fl EXCEPT !.raised = TRUE]

\* PresenceGraphConfigFlow.async_step_links
async_step_links(fl, user_input) ==
    IF user_input = <<>> THEN show_form(fl, "links", "")
    ELSE LET parsed == parse_links(user_input[1])
         IN IF parsed.raised = "ValueError" THEN show_form(fl, "links", "invalid_json")
            ELSE IF parsed.raised # "" THEN step_raised(fl)
            ELSE LET errors == validate_links(fl.spaces, parsed.value)
                 IN IF errors # <<>> THEN show_form(fl, "links", errors[1])
                    ELSE show_form([fl EXCEPT !.links = parsed.value], "summary", "")

\* PresenceGraphConfigFlow.async_step_spaces
async_step_spaces(fl, user_input) ==
    IF user_input = <<>> THEN show_form(fl, "spaces", "")
    ELSE LET parsed == parse_spaces(user_input[1])
         IN IF parsed.raised = "ValueError" THEN show_form(fl, "spaces", "invalid_json")
            ELSE IF parsed.raised # "" THEN step_raised(fl)
            ELSE LET errors == validate_spaces(parsed.value)
                 IN IF errors # <<>> THEN show_form(fl, "spaces", errors[1])
                    ELSE async_step_links([fl EXCEPT !.spaces = parsed.value], <<>>)

\* PresenceGraphConfigFlow.async_step_user: the title is not kept
async_step_user(fl, user_input) ==
    IF user_input = <<>> THEN show_form(fl, "user", "")
    ELSE async_step_spaces(fl, <<>>)

\* PresenceGraphConfigFlow.async_step_summary
async_step_summary(fl, user_input) ==
    IF user_input = <<>> THEN show_form(fl, "summary", "")
    ELSE [fl EXCEPT !.type = "create_entry", !.errors = "", !.raised = FALSE,
                    !.entry = <<[spaces |-> fl.spaces, links |-> fl.links]>>]

\* PresenceGraphOptionsFlowHandler.async_step_init for a submitted form:
\* the result, with the options the entry has afterwards
async_step_init(opts, user_input) ==
    LET parsed == parse_spaces(user_input.spaces)
        parsed_links == parse_links(user_input.links)
        again(error) == [type |-> "form", step_id |-> "init", errors |-> error,
                         raised |-> FALSE, options |-> opts]
    IN IF parsed.raised = "ValueError" THEN again("invalid_json")
       ELSE IF parsed.raised # "" THEN [again("") EXCEPT !.raised = TRUE]
       ELSE IF parsed_links.raised = "ValueError" THEN again("invalid_json")
       ELSE IF parsed_links.raised # "" THEN [again("") EXCEPT !.raised = TRUE]
       ELSE LET errors == validate_spaces(parsed.value)
                          \o validate_links(parsed.value, parsed_links.value)
            IN IF errors # <<>> THEN again(errors[1])
               ELSE [type |-> "create_entry", step_id |-> "init", errors |-> "",
                     raised |-> FALSE,
                     options |-> [spaces |-> parsed.value, links |-> parsed_links.value]]

\* the names a user types: every text of at most MaxNameLen characters
FlowNames == UNION {[1..n -> FlowChars] : n \in 1..MaxNameLen}

\* JSON objects with and without an id, and with an empty one
JsonSpaces ==
    { [name |-> n, id |-> i] : n \in {<<"l">>, <<"k">>},
                               i \in {<<>>, << <<"l">> >>, << <<>> >>} }

\* one or two spaces, as names or as a JSON array, and the texts that hold none
SpacesPayloads ==
    {Blank, JsonOther, Lines(<<>>)}
      \cup {Lines(names) : names \in UNION {[1..n -> FlowNames] : n \in 1..2}}
      \cup {JsonList(items) : items \in UNION {[1..n -> JsonSpaces] : n \in 1..2}}

LinkBetween(name, from_space, to_space) ==
    [name |-> name, id |-> <<>>, from_space |-> from_space, to_space |-> to_space]

LinksPayloads ==
    { Blank, JsonOther, JsonList(<<>>),
      JsonList(<<LinkBetween(<<"k">>, <<"l">>, <<"k">>)>>),
      JsonList(<<LinkBetween(<<"k">>, <<"l">>, <<"k">>),
                 LinkBetween(<<"k">>, <<"l">>, <<"k">>)>>),
      JsonList(<<LinkBetween(<<"k">>, <<"l">>, <<"l", "l">>)>>) }

\* the texts submitted to the options flow for the spaces
OptionsPayloads ==
    { Blank, JsonOther,
      Lines(<< <<"l">>, <<"k">> >>),
      Lines(<< <<"l">>, <<"L">> >>),
      JsonList(<<[name |-> <<"l">>, id |-> << <<"k">> >>],
                 [name |-> <<"k">>, id |-> <<>>]>>) }

engine == <<spaces, links, entity_index, adjacency, state, locked_links,
            last_link_event, last_reason, clock>>

\* the flow manager has created the flow and shown the form of its first step
InitFlow ==
    /\ InitEngine
    /\ decayed_at = Untracked
    /\ reason_log = ATTR_REASON_DECAY
    /\ lock_log = NoLockLog
    /\ flow = async_step_user(NewFlow, <<>>)

\* the flow manager hands a submitted form to the step whose form is shown
StepUser ==
    /\ flow.type = "form" /\ flow.step_id = "user"
    /\ flow' = async_step_user(flow, <<"title">>)
    /\ UNCHANGED <<engine, options, history>>

StepSpaces(payload) ==
    /\ flow.type = "form" /\ flow.step_id = "spaces"
    /\ flow' = async_step_spaces(flow, <<payload>>)
    /\ UNCHANGED <<engine, options, history>>

StepLinks(payload) ==
    /\ flow.type = "form" /\ flow.step_id = "links"
    /\ flow' = async_step_links(flow, <<payload>>)
    /\ UNCHANGED <<engine, options, history>>

StepSummary ==
    /\ flow.type = "form" /\ flow.step_id = "summary"
    /\ flow' = async_step_summary(flow, <<"submit">>)
    /\ UNCHANGED <<engine, options, history>>

\* the options flow of the created entry: async_create_entry stores the data
\* as the entry's options
StepInit(payload, links_payload) ==
    /\ flow.type = "create_entry"
    /\ options' = async_step_init(options, [spaces |-> payload,
                                             links |-> links_payload]).options
    /\ UNCHANGED <<engine, flow, history>>

NextFlow ==
    \/ StepUser
    \/ \E payload \in SpacesPayloads : StepSpaces(payload)
    \/ \E payload \in LinksPayloads : StepLinks(payload)
    \/ StepSummary
    \/ \E payload \in OptionsPayloads, links_payload \in LinksPayloads :
          StepInit(payload, links_payload)

SpecFlow == InitFlow /\ [][NextFlow]_vars

\* two spaces of the submitted list resolve to the same id
ResolvesDuplicate(payload) ==
    \E i, j \in DOMAIN payload.items :
       i # j /\ space_id_of(payload.items[i]) = space_id_of(payload.items[j])

\* ------------------------------------------------------------------------
\* C40: submitting to the spaces step, or to the init step of the options
\* flow, a list in which two spaces resolve to the same id raises no
\* exception and creates no entry: the same form is shown again with the
\* error duplicate_id, and the flow does not advance to the links step.
\* ------------------------------------------------------------------------
C40_DuplicateIdShowsFormAgain ==
    \A payload \in SpacesPayloads :
       ResolvesDuplicate(payload) =>
          /\ (flow.type = "form" /\ flow.step_id = "spaces") =>
                \E res \in {async_step_spaces(flow, <<payload>>)} :
                   /\ ~res.raised
                   /\ res.type = "form"
                   /\ res.step_id = "spaces"
                   /\ res.errors = "duplicate_id"
                   /\ res.entry = <<>>
          /\ flow.type = "create_entry" =>
             \E res \in {async_step_init(options, [spaces |-> payload,
                                                    links |-> JsonList(<<>>)])} :
                /\ ~res.raised
                /\ res.type = "form"
                /\ res.step_id = "init"
                /\ res.errors = "duplicate_id"
                /\ res.options = options

====
